---- MODULE Spec2Model ----
(***************************************************************************)
(* A model of the Bril middle-end passes of this repository: CFG           *)
(* construction and linearization, dominance, local value numbering,       *)
(* trivial dead-code elimination, SSA construction/destruction, loop       *)
(* invariant code motion and trace injection.  Every pass is a pure        *)
(* function of its input program and is modelled as an operator; the       *)
(* specifications draw an input from a bounded set of programs and apply   *)
(* the pass in one step.                                                   *)
(*                                                                         *)
(* Values: Bril integers are modelled as TLA+ integers, booleans as the    *)
(* integers 1 (true) and 0 (false), which is also how Python's dict keys   *)
(* and comparisons treat them (True == 1, hash(True) == hash(1)).          *)
(***************************************************************************)
EXTENDS Integers, Sequences, FiniteSets, TLC

VARIABLES phase, func, argv, out, prog, ret, order

vars == <<phase, func, argv, out, prog, ret, order>>

-----------------------------------------------------------------------------
(* Generic helpers                                                         *)

NoName == ""

Range(s) == {s[i] : i \in DOMAIN s}

Max(S) == CHOOSE x \in S : \A y \in S : y <= x

Min(S) == CHOOSE x \in S : \A y \in S : x <= y

RECURSIVE SortedSeq(_)
SortedSeq(S) == IF S = {} THEN <<>> ELSE <<Min(S)>> \o SortedSeq(S \ {Min(S)})

RECURSIVE Flatten(_)
Flatten(ss) == IF ss = <<>> THEN <<>> ELSE Head(ss) \o Flatten(Tail(ss))

Get(f, k, default) == IF k \in DOMAIN f THEN f[k] ELSE default

Put(f, k, v) == (k :> v) @@ f

EmptyMap == [x \in {} |-> 0]

\* Body applied to value: names a value that the body uses several times
With(value, Body(_)) == Body(value)

\* a sequence and a function in explicit form (TLC evaluates a comprehension
\* [x \in S |-> e] anew at every application)
Tuple(s) == s \o <<>>

Table(f) == f @@ <<>>

Reverse(s) == [i \in DOMAIN s |-> s[Len(s) + 1 - i]]

IndexOf(s, x) == IF \E i \in DOMAIN s : s[i] = x
                 THEN Max({i \in DOMAIN s : s[i] = x}) ELSE 0

-----------------------------------------------------------------------------
(* Instructions.  A label is an entry without "op"; it is modelled with    *)
(* op = "label" and its name in labels[1].  dest = "" models a missing     *)
(* "dest" key, type = "" a missing "type", defid = "" a missing "_def_id". *)

Mk(op, dest, type, args, labels, value) ==
  [op |-> op, dest |-> dest, type |-> type, args |-> args,
   labels |-> labels, value |-> value, defid |-> ""]

Lbl(name) == Mk("label", "", "", <<>>, <<name>>, 0)
Const(d, v) == Mk("const", d, "int", <<>>, <<>>, v)
Op1(op, d, a) == Mk(op, d, "int", <<a>>, <<>>, 0)
Op2(op, d, a, b) == Mk(op, d, "int", <<a, b>>, <<>>, 0)
PrintI(a) == Mk("print", "", "", <<a>>, <<>>, 0)
Jmp(l) == Mk("jmp", "", "", <<>>, <<l>>, 0)
Br(c, l1, l2) == Mk("br", "", "", <<c>>, <<l1, l2>>, 0)
RetI == Mk("ret", "", "", <<>>, <<>>, 0)
CallI(d, a) == Mk("call", d, "int", <<a>>, <<>>, 0)

TERMINATORS == {"br", "jmp", "ret"}

is_label(ins) == ins.op = "label"

is_terminator(ins) == ins.op \in TERMINATORS

instr_uses(ins) == ins.args

instr_def(ins) == ins.dest

-----------------------------------------------------------------------------
(* CFG construction                                                        *)

\* label -> index of its last occurrence
label_to_index(instrs) ==
  Table([l \in {instrs[i].labels[1] : i \in {j \in DOMAIN instrs : is_label(instrs[j])}} |->
           Max({i \in DOMAIN instrs : is_label(instrs[i]) /\ instrs[i].labels[1] = l})])

collect_leaders_and_labels(instrs) ==
  With(label_to_index(instrs), LAMBDA l2i :
    SortedSeq((IF Len(instrs) > 0 THEN {1} ELSE {})
      \cup UNION {{l2i[instrs[i].labels[k]] :
                     k \in {k2 \in DOMAIN instrs[i].labels : instrs[i].labels[k2] \in DOMAIN l2i}} :
                  i \in {j \in DOMAIN instrs : instrs[j].op \in {"br", "jmp"}}}
      \cup {i + 1 : i \in {j \in DOMAIN instrs : is_terminator(instrs[j]) /\ j + 1 <= Len(instrs)}}
      \cup {i \in DOMAIN instrs : is_label(instrs[i])}))

\* the k-th block (k from 1; the code's bi is k - 1): its instructions run from j,
\* the first one after the leading labels, to end
BlockAt(instrs, leaders, k) ==
  With(IF k < Len(leaders) THEN leaders[k + 1] - 1 ELSE Len(instrs), LAMBDA end :
  With(IF \A i \in leaders[k]..end : is_label(instrs[i]) THEN end + 1
       ELSE Min({i \in leaders[k]..end : ~is_label(instrs[i])}), LAMBDA j :
    [name |-> IF j > leaders[k] THEN instrs[leaders[k]].labels[1]
              ELSE "B" \o ToString(k - 1),
     start_labels |-> Tuple([i \in 1..(j - leaders[k]) |-> instrs[leaders[k] + i - 1].labels[1]]),
     instrs |-> SubSeq(instrs, j, end)]))

split_basic_blocks(instrs) ==
  With(collect_leaders_and_labels(instrs), LAMBDA leaders :
  With(Tuple([k \in 1..Len(leaders) |-> BlockAt(instrs, leaders, k)]), LAMBDA full :
    [blocks |-> Tuple([k \in DOMAIN full |-> [name |-> full[k].name, instrs |-> full[k].instrs]]),
     label_to_block |->
       Table([l \in UNION {Range(full[k].start_labels) : k \in DOMAIN full} |->
                Max({k \in DOMAIN full : l \in Range(full[k].start_labels)})])]))

\* successor block indices of block idx
block_successors(block, label_to_block, nblocks, idx) ==
  IF block.instrs = <<>> \/ block.instrs[Len(block.instrs)].op \notin TERMINATORS
  THEN IF idx + 1 <= nblocks THEN <<idx + 1>> ELSE <<>>
  ELSE IF block.instrs[Len(block.instrs)].op = "ret" THEN <<>>
  ELSE With(SelectSeq(block.instrs[Len(block.instrs)].labels,
                      LAMBDA lab : lab \in DOMAIN label_to_block), LAMBDA known :
         Tuple([i \in DOMAIN known |-> label_to_block[known[i]]]))

compute_preds(nblocks, succ_idx) ==
  Tuple([v \in 1..nblocks |->
     Flatten([u \in 1..nblocks |->
        [i \in 1..Len(SelectSeq(succ_idx[u], LAMBDA w : w = v)) |-> u]])])

BlockNames(blocks) == {blocks[i].name : i \in DOMAIN blocks}

orig_index(blocks, nm) == Max({i \in DOMAIN blocks : blocks[i].name = nm})

block_by_name(blocks, nm) == blocks[orig_index(blocks, nm)]

build_cfg_for_function(f) ==
  With(split_basic_blocks(f.instrs), LAMBDA sp :
  With(Tuple([i \in DOMAIN sp.blocks |->
         block_successors(sp.blocks[i], sp.label_to_block, Len(sp.blocks), i)]), LAMBDA succ_idx :
  With(compute_preds(Len(sp.blocks), succ_idx), LAMBDA pred_idx :
    [args |-> f.args,
     blocks |-> sp.blocks,
     entry |-> IF sp.blocks # <<>> THEN sp.blocks[1].name ELSE NoName,
     edges |-> Table([nm \in BlockNames(sp.blocks) |->
                 Tuple([i \in DOMAIN succ_idx[orig_index(sp.blocks, nm)] |->
                          sp.blocks[succ_idx[orig_index(sp.blocks, nm)][i]].name])]),
     preds |-> Table([nm \in BlockNames(sp.blocks) |->
                 Tuple([i \in DOMAIN pred_idx[orig_index(sp.blocks, nm)] |->
                          sp.blocks[pred_idx[orig_index(sp.blocks, nm)][i]].name])])])))

-----------------------------------------------------------------------------
(* Reachability and the two CFG linearizers                                *)

RECURSIVE ReachClosure(_, _, _)
ReachClosure(edges, frontier, seen) ==
  IF frontier = {} THEN seen
  ELSE ReachClosure(edges,
         (UNION {Range(Get(edges, b, <<>>)) : b \in frontier}) \ (seen \cup frontier),
         seen \cup frontier)

reachable_block_names(cfg) ==
  IF cfg.entry = NoName THEN {} ELSE ReachClosure(cfg.edges, {cfg.entry}, {})

has_terminator(blocks, nm) ==
  block_by_name(blocks, nm).instrs # <<>>
  /\ block_by_name(blocks, nm).instrs[Len(block_by_name(blocks, nm).instrs)].op \in TERMINATORS

\* a variant that names the first block as the fallthrough of every block
\* without a terminator
textual_fallthrough_first(blocks, reach, nm) ==
  IF has_terminator(blocks, nm) THEN NoName ELSE blocks[1].name

textual_fallthrough(blocks, reach, nm) ==
  IF has_terminator(blocks, nm)
       \/ \A j \in DOMAIN blocks : ~(j > orig_index(blocks, nm) /\ blocks[j].name \in reach)
  THEN NoName
  ELSE blocks[Min({j \in DOMAIN blocks : j > orig_index(blocks, nm) /\ blocks[j].name \in reach})].name

\* place_chain, given whether b ends in a terminator and its textual fallthrough ft
RECURSIVE place_chain(_, _, _, _)
ChainStep(blocks, reach, b, placed, ft) ==
  IF ft = NoName \/ ft \in Range(placed) \/ ft = b THEN Append(placed, b)
  ELSE place_chain(blocks, reach, ft, Append(placed, b))

place_chain(blocks, reach, b, placed) ==
  IF b = NoName \/ b \notin reach \/ b \in Range(placed) THEN placed
  ELSE ChainStep(blocks, reach, b, placed, textual_fallthrough(blocks, reach, b))

RECURSIVE PlaceRemaining(_, _, _, _)
PlaceRemaining(blocks, reach, i, placed) ==
  IF i > Len(blocks) THEN placed
  ELSE PlaceRemaining(blocks, reach, i + 1,
         IF blocks[i].name \in reach /\ blocks[i].name \notin Range(placed)
         THEN place_chain(blocks, reach, blocks[i].name, placed) ELSE placed)

ReachableOrder(blocks, reach, entry) ==
  PlaceRemaining(blocks, reach, 1,
     IF entry \in reach THEN place_chain(blocks, reach, entry, <<>>) ELSE <<>>)

\* the instructions emitted for the block at position idx of the layout ord
EmitBlock(cfg, reach, ord, target_labels, idx, ft) ==
  (IF ord[idx] \in target_labels /\ ~\E j \in 1..(idx - 1) : ord[j] = ord[idx]
   THEN <<Lbl(ord[idx])>> ELSE <<>>)
  \o block_by_name(cfg.blocks, ord[idx]).instrs
  \o (IF ord[idx] \in reach /\ ft # NoName
         /\ ft # (IF idx + 1 <= Len(ord) THEN ord[idx + 1] ELSE NoName)
      THEN <<Jmp(ft)>> ELSE <<>>)

EmitLayout(cfg, reach, ord, target_labels) ==
  [args |-> cfg.args,
   instrs |-> Flatten([idx \in DOMAIN ord |->
                EmitBlock(cfg, reach, ord, target_labels, idx,
                          textual_fallthrough(cfg.blocks, reach, ord[idx]))])]

\* lesson3/helpers.py: unreachable blocks are left out of the layout
linearize_cfg_l3(cfg) ==
  With(IF cfg.entry # NoName /\ cfg.entry \in BlockNames(cfg.blocks)
       THEN ReachClosure([n \in DOMAIN cfg.edges |->
                            SelectSeq(cfg.edges[n], LAMBDA s : s \in BlockNames(cfg.blocks))],
                         {cfg.entry}, {})
       ELSE {}, LAMBDA reach :
  With(ReachableOrder(cfg.blocks, reach, cfg.entry), LAMBDA ord :
    EmitLayout(cfg, reach, ord,
      UNION {Range(Get(cfg.edges, ord[i], <<>>)) \cap reach : i \in DOMAIN ord})))

\* the dump of lines 51-70: no reachable block
DumpLayout(cfg) ==
  [args |-> cfg.args,
   instrs |-> Flatten([i \in DOMAIN cfg.blocks |->
      (IF (\E k \in DOMAIN cfg.blocks :
              cfg.blocks[i].name \in Range(Get(cfg.edges, cfg.blocks[k].name, <<>>)))
          /\ ~\E j \in 1..(i - 1) : cfg.blocks[j].name = cfg.blocks[i].name
       THEN <<Lbl(cfg.blocks[i].name)>> ELSE <<>>)
      \o block_by_name(cfg.blocks, cfg.blocks[i].name).instrs])]

\* lesson4/lesson3/helpers.py: unreachable blocks are appended after the reachable ones
linearize_cfg_l4(cfg) ==
  With(reachable_block_names(cfg), LAMBDA reach :
    IF reach = {} THEN DumpLayout(cfg)
    ELSE With(ReachableOrder(cfg.blocks, reach, cfg.entry), LAMBDA placed :
         With(placed \o SelectSeq([i \in DOMAIN cfg.blocks |-> cfg.blocks[i].name],
                                  LAMBDA n : n \notin Range(placed)), LAMBDA ord :
           EmitLayout(cfg, reach, ord,
             UNION {Range(Get(cfg.edges, ord[i], <<>>)) : i \in DOMAIN ord}))))

-----------------------------------------------------------------------------
(* The reference interpreter (brili), as far as the passes rely on it.     *)
(* An outcome is the sequence of print/call events and the final status.   *)

Fuel == 24

UndefVal == 0 - 1000000

TruncDiv(a, b) ==
  LET q == (IF a < 0 THEN 0 - a ELSE a) \div (IF b < 0 THEN 0 - b ELSE b)
  IN IF (a < 0) = (b < 0) THEN q ELSE 0 - q

B2I(b) == IF b THEN 1 ELSE 0

BinOps == {"add", "sub", "mul", "div", "eq", "lt", "le", "gt", "ge", "and", "or"}

EvalOp(op, a, b) ==
  CASE op = "add" -> a + b
    [] op = "sub" -> a - b
    [] op = "mul" -> a * b
    [] op = "div" -> TruncDiv(a, b)
    [] op = "eq" -> B2I(a = b)
    [] op = "lt" -> B2I(a < b)
    [] op = "le" -> B2I(a <= b)
    [] op = "gt" -> B2I(a > b)
    [] op = "ge" -> B2I(a >= b)
    [] op = "and" -> B2I(a # 0 /\ b # 0)
    [] op = "or" -> B2I(a # 0 \/ b # 0)

\* the value returned by the (fixed) callee of a call instruction
CalleeResult(a) == a + 1

\* first position of label l, 0 when there is none
FindLabel(instrs, l) ==
  LET ps == {i \in DOMAIN instrs : is_label(instrs[i]) /\ instrs[i].labels[1] = l}
  IN IF ps = {} THEN 0 ELSE Min(ps)

Outcome(o, st) == [out |-> o, status |-> st]

\* one machine state: position, environment, shadow environment, events, status
Machine(pc, env, shadow, o, st) ==
  [pc |-> pc, env |-> env, shadow |-> shadow, out |-> o, status |-> st]

\* the effect of the instruction at m.pc
Step(instrs, m) ==
  LET ins == instrs[m.pc]
      op == ins.op
      reads == IF op = "set" THEN <<ins.args[2]>>
               ELSE IF op \in {"label", "jmp", "ret"} THEN <<>> ELSE ins.args
      defined == \A i \in DOMAIN reads : reads[i] \in DOMAIN m.env
      strict == \A i \in DOMAIN reads : m.env[reads[i]] # UndefVal
      val(i) == m.env[ins.args[i]]
      halt(st) == [m EXCEPT !.status = st]
      next(e) == [m EXCEPT !.pc = m.pc + 1, !.env = e]
      goto(l) == IF FindLabel(instrs, l) = 0 THEN halt("error")
                 ELSE [m EXCEPT !.pc = FindLabel(instrs, l)]
  IN CASE op = "label" -> next(m.env)
       [] op = "ret" -> halt("ok")
       [] op = "jmp" -> goto(ins.labels[1])
       [] op \notin {"label", "ret", "jmp"} /\ ~defined -> halt("error")
       [] op = "const" -> next(Put(m.env, ins.dest, ins.value))
       [] op = "undef" -> next(Put(m.env, ins.dest, UndefVal))
       [] op = "id" /\ defined -> next(Put(m.env, ins.dest, val(1)))
       [] op = "set" /\ defined ->
            [m EXCEPT !.pc = m.pc + 1, !.shadow = Put(m.shadow, ins.args[1], val(2))]
       [] op = "get" ->
            IF ins.dest \in DOMAIN m.shadow
            THEN next(Put(m.env, ins.dest, m.shadow[ins.dest])) ELSE halt("error")
       [] op \notin {"id", "set"} /\ defined /\ ~strict -> halt("error")
       [] op = "br" /\ defined /\ strict ->
            goto(IF val(1) # 0 THEN ins.labels[1] ELSE ins.labels[2])
       [] op = "print" /\ defined /\ strict ->
            [m EXCEPT !.pc = m.pc + 1,
                      !.out = Append(m.out, <<0>> \o [i \in DOMAIN ins.args |-> val(i)])]
       [] op = "call" /\ defined /\ strict ->
            [m EXCEPT !.pc = m.pc + 1, !.env = Put(m.env, ins.dest, CalleeResult(val(1))),
                      !.out = Append(m.out, <<1, val(1)>>)]
       [] op = "not" /\ defined /\ strict -> next(Put(m.env, ins.dest, B2I(val(1) = 0)))
       [] op \in BinOps /\ defined /\ strict ->
            IF op = "div" /\ val(2) = 0 THEN halt("error")
            ELSE next(Put(m.env, ins.dest, EvalOp(op, val(1), val(2))))
       [] OTHER -> next(m.env)

\* one instruction of a running machine; a machine past the last instruction stops
Tick(instrs, m) ==
  IF m.status # "run" THEN m
  ELSE IF m.pc > Len(instrs) THEN [m EXCEPT !.status = "ok"]
  ELSE Step(instrs, m)

\* n ticks, halving n so that the nesting stays shallow
RECURSIVE Exec(_, _, _)
Exec(instrs, m, n) ==
  IF m.status # "run" \/ n = 0 THEN m
  ELSE IF n = 1 THEN Tick(instrs, m)
  ELSE Exec(instrs, Exec(instrs, m, n \div 2), n - (n \div 2))

\* run f on the argument values a (one per parameter) for at most fuel ticks; a
\* machine still running then has status "fuel"
RunWith(f, a, fuel) ==
  With(Exec(f.instrs, Machine(1, [p \in Range(f.args) |-> a[IndexOf(f.args, p)]],
                              EmptyMap, <<>>, "run"), fuel),
       LAMBDA m : Outcome(m.out, IF m.status = "run" THEN "fuel" ELSE m.status))

Run(f, a) == RunWith(f, a, Fuel)

\* g prints the values f prints whenever f runs to completion
SamePrints(f, g, a) ==
  Run(f, a).status = "ok" => RunWith(g, a, 4 * Fuel).out = Run(f, a).out

\* g prints what f prints and stops as f stops whenever f runs to completion
SameOutput(f, g, a) ==
  Run(f, a).status = "ok" => RunWith(g, a, 4 * Fuel) = Run(f, a)

-----------------------------------------------------------------------------
(* Local value numbering (lesson3/lvn.py)                                  *)

BINARY_OPS == {"add", "sub", "mul", "div", "eq", "lt", "le", "gt", "ge", "and", "or"}

UNARY_OPS == {"not"}

COMMUTATIVE_OPS == {"add", "mul", "eq", "and", "or"}

\* Python's floor division
FloorDiv(a, b) == IF b > 0 THEN a \div b ELSE (0 - a) \div (0 - b)

\* (ok, value) of folding op over known constants; a raised exception gives ok = FALSE
try_const_fold(op, consts) ==
  LET a == consts[1]
      b == consts[2]
      yes(v) == [ok |-> TRUE, value |-> v]
  IN CASE op = "add" -> yes(a + b)
       [] op = "sub" -> yes(a - b)
       [] op = "mul" -> yes(a * b)
       [] op = "div" -> IF b = 0 THEN [ok |-> FALSE, value |-> 0] ELSE yes(FloorDiv(a, b))
       [] op = "eq" -> yes(B2I(a = b))
       [] op = "lt" -> yes(B2I(a < b))
       [] op = "le" -> yes(B2I(a <= b))
       [] op = "gt" -> yes(B2I(a > b))
       [] op = "ge" -> yes(B2I(a >= b))
       [] op = "and" -> yes(IF a = 0 THEN a ELSE b)
       [] op = "or" -> yes(IF a # 0 THEN a ELSE b)
       [] op = "not" -> yes(B2I(a = 0))
       [] OTHER -> [ok |-> FALSE, value |-> 0]

normalize_commutative(op, arg_value_numbers) ==
  IF op \in COMMUTATIVE_OPS /\ Len(arg_value_numbers) = 2
       /\ arg_value_numbers[1] > arg_value_numbers[2]
  THEN <<arg_value_numbers[2], arg_value_numbers[1]>>
  ELSE arg_value_numbers

\* arg_consts[i] is <<>> for None and <<c>> for a known constant c
apply_identities(op, arg_nums, arg_consts) ==
  LET c1(v) == arg_consts[1] = <<v>>
      c2(v) == arg_consts[2] = <<v>>
      num(n) == [kind |-> "num", v |-> n]
      const(c) == [kind |-> "const", v |-> c]
      key == [kind |-> "key", v |-> 0]
  IN CASE op = "add" -> IF c2(0) THEN num(arg_nums[1]) ELSE IF c1(0) THEN num(arg_nums[2]) ELSE key
       [] op = "sub" -> IF c2(0) THEN num(arg_nums[1]) ELSE key
       [] op = "mul" -> IF c1(0) \/ c2(0) THEN const(0)
                        ELSE IF c1(1) THEN num(arg_nums[2])
                        ELSE IF c2(1) THEN num(arg_nums[1]) ELSE key
       [] op = "and" -> IF c1(0) \/ c2(0) THEN const(0)
                        ELSE IF c1(1) THEN num(arg_nums[2])
                        ELSE IF c2(1) THEN num(arg_nums[1]) ELSE key
       [] op = "or" -> IF c1(1) \/ c2(1) THEN const(1)
                       ELSE IF c1(0) THEN num(arg_nums[2])
                       ELSE IF c2(0) THEN num(arg_nums[1]) ELSE key
       [] OTHER -> key

\* the tables of lvn_block; table holds the value keys <<op, n1, n2>> (n2 = 0 for a
\* unary op), ctable the ("const", c) keys.  The ("var", name) keys are never looked up.
LvnInit ==
  [table |-> EmptyMap, ctable |-> EmptyMap, var2num |-> EmptyMap, num2var |-> EmptyMap,
   num2const |-> EmptyMap, next_num |-> 1, new_instrs |-> <<>>]

ensure_var_number(st, v) ==
  IF v \in DOMAIN st.var2num THEN st
  ELSE [st EXCEPT !.var2num = Put(st.var2num, v, st.next_num),
                  !.num2var = Put(st.num2var, st.next_num, v),
                  !.next_num = st.next_num + 1]

canonical_var_of_num(st, valnum, default_name) == Get(st.num2var, valnum, default_name)

\* record_const followed by the caller's var2num[dest] = n and num2var[n] = dest
RecordConstFor(st, c, dest, emitted) ==
  LET known == c \in DOMAIN st.ctable
      n == IF known THEN st.ctable[c] ELSE st.next_num
  IN [st EXCEPT !.ctable = Put(st.ctable, c, n),
                !.num2const = IF known THEN st.num2const ELSE Put(st.num2const, n, c),
                !.next_num = IF known THEN st.next_num ELSE st.next_num + 1,
                !.var2num = Put(st.var2num, dest, n),
                !.num2var = Put(st.num2var, n, dest),
                !.new_instrs = Append(st.new_instrs, emitted)]

\* an instruction becomes a copy of value number n
CopyOfNum(st, ins, n) ==
  LET rep == canonical_var_of_num(st, n, ins.dest)
  IN [st EXCEPT !.var2num = Put(st.var2num, ins.dest, n),
                !.num2var = IF n \in DOMAIN st.num2var THEN st.num2var ELSE Put(st.num2var, n, rep),
                !.new_instrs = Append(st.new_instrs, Mk("id", ins.dest, ins.type, <<rep>>, <<>>, 0))]

RECURSIVE EnsureAll(_, _)
EnsureAll(st, args) ==
  IF args = <<>> THEN st ELSE EnsureAll(ensure_var_number(st, Head(args)), Tail(args))

\* lines 185-259: a core unary or binary op
LvnCore(st0, ins) ==
  LET st == EnsureAll(st0, ins.args)
      op == ins.op
      dest == ins.dest
      arg_nums == [i \in DOMAIN ins.args |-> st.var2num[ins.args[i]]]
      arg_consts == [i \in DOMAIN ins.args |->
                       IF arg_nums[i] \in DOMAIN st.num2const THEN <<st.num2const[arg_nums[i]]>> ELSE <<>>]
      canon_args == [i \in DOMAIN ins.args |-> canonical_var_of_num(st, arg_nums[i], ins.args[i])]
      all_const == \A i \in DOMAIN arg_consts : arg_consts[i] # <<>>
      folded == try_const_fold(op, [i \in DOMAIN arg_consts |-> arg_consts[i][1]])
      norm_nums == normalize_commutative(op, arg_nums)
      kind == apply_identities(op, norm_nums, arg_consts)
      canon2 == IF op \in BINARY_OPS
                THEN [i \in DOMAIN norm_nums |-> canonical_var_of_num(st, norm_nums[i], canon_args[i])]
                ELSE canon_args
      nums2 == IF op \in BINARY_OPS THEN norm_nums ELSE arg_nums
      value_key == IF op \in UNARY_OPS THEN <<op, nums2[1], 0>> ELSE <<op, nums2[1], nums2[2]>>
      rewritten == [ins EXCEPT !.args = IF canon2 # <<>> THEN canon2 ELSE ins.args]
  IN IF all_const /\ folded.ok /\ dest # NoName
     THEN RecordConstFor(st, folded.value, dest, Mk("const", dest, ins.type, <<>>, <<>>, folded.value))
     ELSE IF op \in BINARY_OPS /\ kind.kind = "const" /\ dest # NoName
     THEN RecordConstFor(st, kind.v, dest, Mk("const", dest, ins.type, <<>>, <<>>, kind.v))
     ELSE IF op \in BINARY_OPS /\ kind.kind = "num" /\ dest # NoName
     THEN CopyOfNum(st, ins, kind.v)
     ELSE IF dest = NoName
     THEN [st EXCEPT !.new_instrs = Append(st.new_instrs, rewritten)]
     ELSE IF value_key \in DOMAIN st.table
     THEN CopyOfNum(st, ins, st.table[value_key])
     ELSE [st EXCEPT !.table = Put(st.table, value_key, st.next_num),
                     !.var2num = Put(st.var2num, dest, st.next_num),
                     !.num2var = Put(st.num2var, st.next_num, dest),
                     !.next_num = st.next_num + 1,
                     !.new_instrs = Append(st.new_instrs, rewritten)]

\* one iteration of the loop of lvn_block
LvnInstr(st, ins) ==
  IF ins.op = "label" THEN [st EXCEPT !.new_instrs = Append(st.new_instrs, ins)]
  ELSE IF ins.op = "const" /\ ins.dest # NoName
  THEN RecordConstFor(st, ins.value, ins.dest, ins)
  ELSE IF ins.op = "id" /\ ins.dest # NoName /\ Len(ins.args) = 1
  THEN LET s1 == ensure_var_number(st, ins.args[1])
       IN [s1 EXCEPT !.var2num = Put(s1.var2num, ins.dest, s1.var2num[ins.args[1]]),
                     !.new_instrs = Append(s1.new_instrs, ins)]
  ELSE IF ins.op \notin BINARY_OPS /\ ins.op \notin UNARY_OPS
  THEN [st EXCEPT !.new_instrs = Append(st.new_instrs, ins)]
  ELSE LvnCore(st, ins)

RECURSIVE LvnFold(_, _)
LvnFold(st, instrs) ==
  IF instrs = <<>> THEN st ELSE LvnFold(LvnInstr(st, Head(instrs)), Tail(instrs))

lvn_block(block) == LvnFold(LvnInit, block.instrs).new_instrs

\* lvn.py main, for one function
lvn_main(f) ==
  LET cfg == build_cfg_for_function(f)
  IN linearize_cfg_l3([cfg EXCEPT !.blocks =
       [i \in DOMAIN cfg.blocks |-> [cfg.blocks[i] EXCEPT !.instrs = lvn_block(cfg.blocks[i])]]])

-----------------------------------------------------------------------------
(* Trivial dead code elimination (lesson3/tdce.py)                         *)

UsesOf(instrs) == UNION {Range(instr_uses(instrs[i])) : i \in DOMAIN instrs}

remove_globally_unused_instructions(cfg) ==
  LET reachable == reachable_block_names(cfg)
      used == UNION {UsesOf(cfg.blocks[i].instrs) :
                       i \in {j \in DOMAIN cfg.blocks : cfg.blocks[j].name \in reachable}}
      keep(ins) == ~(instr_def(ins) # NoName /\ instr_def(ins) \notin used) \/ ins.op = "call"
  IN [cfg EXCEPT !.blocks = [i \in DOMAIN cfg.blocks |->
        IF cfg.blocks[i].name \in reachable
        THEN [cfg.blocks[i] EXCEPT !.instrs = SelectSeq(cfg.blocks[i].instrs, keep)]
        ELSE cfg.blocks[i]]]

\* a variant of lines 74-76 that records no use
RecordUses_none(used, uses, redefined) == used

\* lines 65-67 and 74-76: the uses of variables that are redefined further right
RecordUses(used, uses, redefined) == used \cup (uses \cap redefined)

\* lines 56-96: one instruction of the right-to-left scan of one block;
\* st = [redefined, used, kept]
LocalScanStep(st, ins) ==
  LET dest == instr_def(ins)
      uses == Range(instr_uses(ins))
      was_redef == dest \in st.redefined
      redefined == st.redefined \cup {dest}
      used1 == RecordUses(st.used, uses, redefined)
      self_use == dest \in uses
  IN IF dest # NoName /\ ins.op = "id" /\ Len(ins.args) = 1 /\ ins.args[1] = dest
     THEN st
     ELSE IF dest = NoName
     THEN [st EXCEPT !.kept = <<ins>> \o st.kept,
                     !.used = RecordUses(st.used, uses, st.redefined)]
     ELSE IF was_redef /\ dest \notin used1 /\ ~self_use /\ ins.op # "call"
     THEN [st EXCEPT !.redefined = redefined, !.used = used1]
     ELSE [redefined |-> redefined,
           used |-> IF self_use THEN used1 ELSE used1 \ {dest},
           kept |-> <<ins>> \o st.kept]

\* the right-to-left scan of one block
RECURSIVE LocalScan(_, _, _)
LocalScan(instrs, i, st) ==
  IF i = 0 THEN st.kept
  ELSE LocalScan(instrs, i - 1, LocalScanStep(st, instrs[i]))

remove_locally_killed_instructions(cfg) ==
  LET reachable == reachable_block_names(cfg)
  IN [cfg EXCEPT !.blocks = [i \in DOMAIN cfg.blocks |->
        IF cfg.blocks[i].name \in reachable
        THEN [cfg.blocks[i] EXCEPT !.instrs =
                LocalScan(cfg.blocks[i].instrs, Len(cfg.blocks[i].instrs),
                          [redefined |-> {}, used |-> {}, kept |-> <<>>])]
        ELSE cfg.blocks[i]]]

\* the while-loop of tdce.py main: both passes, until neither removes anything
RECURSIVE TdceFixpoint(_)
TdceFixpoint(cfg) ==
  LET next == remove_locally_killed_instructions(remove_globally_unused_instructions(cfg))
  IN IF next = cfg THEN cfg ELSE TdceFixpoint(next)

tdce_main(f) == linearize_cfg_l3(TdceFixpoint(build_cfg_for_function(f)))

-----------------------------------------------------------------------------
(* Dominance (lesson8/lesson5/dominance_lesson6.py)                        *)

entry_name(cfg) == cfg.entry

all_block_names(cfg) == [i \in DOMAIN cfg.blocks |-> cfg.blocks[i].name]

preds_by_name(cfg) == cfg.preds

succs_by_name(cfg) == cfg.edges

\* the permutations of a finite set, as sequences
Perms(S) ==
  {s \in [1..Cardinality(S) -> S] : \A i, j \in DOMAIN s : s[i] = s[j] => i = j}

\* list(reach): the reachable names in an iteration order; the model's default
\* order is the textual one
TextualOrder(cfg, S) == SelectSeq(all_block_names(cfg), LAMBDA n : n \in S)

\* a variant that joins the dominator sets of the predecessors instead of
\* intersecting them
DomNewSet_union(cfg, names, dom, b) ==
  LET preds == SelectSeq(Get(preds_by_name(cfg), b, <<>>), LAMBDA q : q \in Range(names))
  IN {b} \cup UNION {dom[preds[i]] : i \in DOMAIN preds}

\* the new dominator set of block b
DomNewSet(cfg, names, dom, b) ==
  LET preds == SelectSeq(Get(preds_by_name(cfg), b, <<>>), LAMBDA q : q \in Range(names))
      common(i) == dom[preds[i]]
  IN IF preds = <<>> THEN {b}
     ELSE {b} \cup {x \in Range(names) : \A i \in DOMAIN preds : x \in common(i)}

\* one pass of the for-loop over names, updating dom in place
RECURSIVE DomSweep(_, _, _, _)
DomSweep(cfg, names, dom, i) ==
  IF i > Len(names) THEN dom
  ELSE IF names[i] = entry_name(cfg) THEN DomSweep(cfg, names, dom, i + 1)
  ELSE DomSweep(cfg, names, [dom EXCEPT ![names[i]] = DomNewSet(cfg, names, dom, names[i])], i + 1)

RECURSIVE DomLoop(_, _, _)
DomLoop(cfg, names, dom) ==
  LET d2 == DomSweep(cfg, names, dom, 1)
  IN IF d2 = dom THEN dom ELSE DomLoop(cfg, names, d2)

\* compute_dominators, iterating the blocks in the order names
compute_dominators_in(cfg, names) ==
  DomLoop(cfg, names,
          [n \in Range(names) |-> IF n = entry_name(cfg) THEN {n} ELSE Range(names)])

DomNames(cfg) ==
  IF reachable_block_names(cfg) # {} THEN TextualOrder(cfg, reachable_block_names(cfg))
  ELSE all_block_names(cfg)

compute_dominators(cfg) == compute_dominators_in(cfg, DomNames(cfg))

\* dominates_naive without its caps on the number and length of paths: a dominates b
\* when every path from the entry to b contains a
DominatesOnAllPaths(cfg, a, b) ==
  LET cut == [n \in DOMAIN cfg.edges |-> IF n = a THEN <<>> ELSE cfg.edges[n]]
      avoiding == IF a = cfg.entry THEN {} ELSE ReachClosure(cut, {cfg.entry}, {})
  IN IF cfg.entry = NoName \/ b \notin reachable_block_names(cfg) THEN a = b
     ELSE a = b \/ b \notin avoiding

\* a variant that takes every strict dominator for a candidate
ImmDomCandidates_all(dom, b) == dom[b] \ {b}

\* compute_imm_dom: candidates d of b are the strict dominators dominated by all others
ImmDomCandidates(dom, b) ==
  {d \in dom[b] \ {b} : \A o \in (dom[b] \ {b, d}) : o \in dom[d]}

compute_imm_dom(dom, entry) ==
  [b \in DOMAIN dom |->
     IF b = entry THEN entry
     ELSE IF ImmDomCandidates(dom, b) = {} THEN NoName
     ELSE CHOOSE d \in ImmDomCandidates(dom, b) : TRUE]

\* Block names in ascending string order ('.' < digits < letters): the names the
\* model's functions can contain, for comparing names as Python compares strings
MaxLabel == 6

NameUniverse ==
  [i \in 1..MaxLabel |-> "B" \o ToString(i - 1)] \o
  Flatten([i \in 1..MaxLabel |->
    << "L" \o ToString(i), "L" \o ToString(i) \o ".entry_init",
       "L" \o ToString(i) \o ".preheader" >>])

StrLeq(x, y) == IndexOf(NameUniverse, x) <= IndexOf(NameUniverse, y)

\* the names of S in sorted order (list.sort on strings)
RECURSIVE SortNames(_)
SortNames(S) ==
  IF S = {} THEN <<>>
  ELSE LET m == CHOOSE x \in S : \A y \in S : StrLeq(x, y)
       IN <<m>> \o SortNames(S \ {m})

build_dom_tree(imm_dom, entry) ==
  [n \in DOMAIN imm_dom |->
     SortNames({b \in DOMAIN imm_dom : b # entry /\ imm_dom[b] = n /\ imm_dom[b] # b})]

\* compute_dominance_frontier: DF_local, then DF_up along the dominator tree
DFChildren(cfg, imm_dom, names) ==
  [n \in names |-> SortNames({b \in DOMAIN imm_dom :
      b # entry_name(cfg) /\ imm_dom[b] = n /\ imm_dom[b] # b})]

DFLocal(cfg, imm_dom, names, x) ==
  {y \in Range(Get(cfg.edges, x, <<>>)) \cap names : Get(imm_dom, y, NoName) # x}

RECURSIVE dfs_df(_, _, _, _, _)
dfs_df(cfg, imm_dom, names, dom_sets, x) ==
  DFLocal(cfg, imm_dom, names, x) \cup
  UNION {{y \in dfs_df(cfg, imm_dom, names, dom_sets, z) :
            x \notin Get(dom_sets, y, {}) \/ x = y} :
         z \in Range(DFChildren(cfg, imm_dom, names)[x])}

compute_dominance_frontier(cfg, imm_dom) ==
  LET names == IF reachable_block_names(cfg) # {} THEN reachable_block_names(cfg)
               ELSE Range(all_block_names(cfg))
      dom_sets == compute_dominators(cfg)
      children == DFChildren(cfg, imm_dom, names)
      entry == entry_name(cfg)
      roots == IF entry # NoName THEN {entry}
               ELSE {n \in names : Get(imm_dom, n, NoName) \in {NoName, n}}
      visited == ReachClosure(children, roots, {})
  IN [n \in names |->
        IF n \in visited THEN dfs_df(cfg, imm_dom, names, dom_sets, n)
        ELSE DFLocal(cfg, imm_dom, names, n)]

-----------------------------------------------------------------------------
(* SSA construction (lesson8/lesson6/to_ssa.py).  Python iterates a set of *)
(* strings in an order fixed by the hashes of the run; the operators take  *)
(* that order as ord, a sequence of names, and a set is iterated in the    *)
(* order its members have in ord.                                          *)

\* ord lists every name a set of the run can hold
IterSeq(S, ord) == SelectSeq(ord, LAMBDA x : x \in S)

AllInstrs(cfg) == Flatten([i \in DOMAIN cfg.blocks |-> cfg.blocks[i].instrs])

collect_variables(cfg) ==
  UNION {(IF ins.dest # "" THEN {ins.dest} ELSE {}) \cup Range(ins.args) :
           ins \in Range(AllInstrs(cfg))}

find_definitions(cfg, var) ==
  {cfg.blocks[i].name : i \in {j \in DOMAIN cfg.blocks :
      \E ins \in Range(cfg.blocks[j].instrs) : ins.dest = var}}

\* live_in of one block from the live_in of its successors
SsaLiveIn(cfg, live, i) ==
  LET instrs == cfg.blocks[i].instrs
      live_out == UNION {live[sc] : sc \in Range(Get(cfg.edges, cfg.blocks[i].name, <<>>))}
      used == {a \in UNION {Range(instrs[k].args) : k \in DOMAIN instrs} :
                 \E k \in DOMAIN instrs :
                   a \in Range(instrs[k].args) /\ \A j \in 1..(k - 1) : instrs[j].dest # a}
      defined == {instrs[k].dest : k \in DOMAIN instrs} \ {""}
  IN used \cup (live_out \ defined)

RECURSIVE SsaLiveSweep(_, _, _)
SsaLiveSweep(cfg, live, i) ==
  IF i > Len(cfg.blocks) THEN live
  ELSE SsaLiveSweep(cfg, [live EXCEPT ![cfg.blocks[i].name] = SsaLiveIn(cfg, live, i)], i + 1)

RECURSIVE SsaLiveness(_, _)
SsaLiveness(cfg, live) ==
  LET l2 == SsaLiveSweep(cfg, live, 1)
  IN IF l2 = live THEN live ELSE SsaLiveness(cfg, l2)

\* the for-loop over df.get(block) for one variable; st holds phi_nodes (phi, and
\* its keys in insertion order), phi_inserted and the worklist
RECURSIVE PhiDfLoop(_, _, _, _, _, _)
PhiDfLoop(dfseq, i, var, live_in, def_blocks, st) ==
  IF i > Len(dfseq) THEN st
  ELSE LET d == dfseq[i]
           cur == Get(st.phi, d, {})
           ins == var \notin cur /\ d \notin st.inserted /\ var \in Get(live_in, d, {})
       IN PhiDfLoop(dfseq, i + 1, var, live_in, def_blocks,
            [phi |-> Put(st.phi, d, IF ins THEN cur \cup {var} ELSE cur),
             keys |-> IF d \in Range(st.keys) THEN st.keys ELSE Append(st.keys, d),
             inserted |-> IF ins THEN st.inserted \cup {d} ELSE st.inserted,
             worklist |-> IF ins /\ d \notin def_blocks THEN Append(st.worklist, d)
                          ELSE st.worklist])

RECURSIVE PhiWorklist(_, _, _, _, _, _)
PhiWorklist(df, ord, var, live_in, def_blocks, st) ==
  IF st.worklist = <<>> THEN st
  ELSE LET block == st.worklist[Len(st.worklist)]
           popped == [st EXCEPT !.worklist = SubSeq(st.worklist, 1, Len(st.worklist) - 1)]
       IN PhiWorklist(df, ord, var, live_in, def_blocks,
            PhiDfLoop(IterSeq(Get(df, block, {}), ord), 1, var, live_in, def_blocks, popped))

\* insert_phi_nodes: [phi |-> block -> variables that get a get, keys |-> the keys of
\* phi_nodes in insertion order]
insert_phi_nodes(cfg, variables, func_args, ord) ==
  LET df == compute_dominance_frontier(cfg,
              compute_imm_dom(compute_dominators(cfg), entry_name(cfg)))
      live_in == SsaLiveness(cfg, [n \in BlockNames(cfg.blocks) |-> {}])
      vs == IterSeq(variables, ord)
      DefBlocks(var) == find_definitions(cfg, var) \cup
                          (IF var \in func_args /\ entry_name(cfg) # NoName
                           THEN {entry_name(cfg)} ELSE {})
      F[i \in 0..Len(vs)] ==
        IF i = 0 THEN [phi |-> EmptyMap, keys |-> <<>>, inserted |-> {}, worklist |-> <<>>]
        ELSE IF Cardinality(DefBlocks(vs[i])) <= 1 THEN F[i - 1]
        ELSE PhiWorklist(df, ord, vs[i], live_in, DefBlocks(vs[i]),
               [F[i - 1] EXCEPT !.inserted = {},
                                !.worklist = IterSeq(DefBlocks(vs[i]), ord)])
  IN [phi |-> F[Len(vs)].phi, keys |-> F[Len(vs)].keys]

VersionName(var, n) == var \o "." \o ToString(n)

\* the (block, variable) pairs in the order lines 145-148 number them
PhiPairs(pn, ord) ==
  Flatten([k \in DOMAIN pn.keys |->
    [j \in DOMAIN IterSeq(pn.phi[pn.keys[k]], ord) |->
       <<pn.keys[k], IterSeq(pn.phi[pn.keys[k]], ord)[j]>>]])

\* phi_var_names[(block, var)]
PhiVarName(pairs, block, var) ==
  LET at == CHOOSE i \in DOMAIN pairs : pairs[i] = <<block, var>>
  IN VersionName(var, Cardinality({i \in 1..at : pairs[i][2] = var}))

\* a variant that emits nothing for the successors
SuccessorSets_none(cfg, pn, pairs, ord, block_name, stacks) == <<>>

\* the set (and undef) instructions a block emits for the gets of its successors
SuccessorSets(cfg, pn, pairs, ord, block_name, stacks) ==
  LET succs == Get(cfg.edges, block_name, <<>>)
      ForVar(succ, var) ==
        IF Get(stacks, var, <<>>) # <<>>
        THEN <<Mk("set", "", "", <<PhiVarName(pairs, succ, var),
                                   stacks[var][Len(stacks[var])]>>, <<>>, 0)>>
        ELSE <<Mk("undef", var \o ".undef", "int", <<>>, <<>>, 0),
               Mk("set", "", "", <<PhiVarName(pairs, succ, var), var \o ".undef">>, <<>>, 0)>>
      ForSucc(succ) ==
        LET vs == IterSeq(Get(pn.phi, succ, {}), ord)
        IN Flatten([j \in DOMAIN vs |-> ForVar(succ, vs[j])])
  IN Flatten([k \in DOMAIN succs |-> ForSucc(succs[k])])

\* lines 200-254: the instructions of a block, renamed; st holds stacks, counters and
\* the new instruction list
RECURSIVE RenameInstrs(_, _, _, _, _, _, _, _)
RenameInstrs(cfg, pn, pairs, ord, variables, block_name, i, st) ==
  LET instrs == block_by_name(cfg.blocks, block_name).instrs
  IN IF i > Len(instrs) THEN st
     ELSE LET instr == instrs[i]
              sets == IF is_terminator(instr)
                      THEN SuccessorSets(cfg, pn, pairs, ord, block_name, st.stacks)
                      ELSE <<>>
              Top(a) == IF a \in variables /\ Get(st.stacks, a, <<>>) # <<>>
                        THEN st.stacks[a][Len(st.stacks[a])] ELSE a
              new_args == [k \in DOMAIN instr.args |-> Top(instr.args[k])]
              renamed == instr.dest # "" /\ instr.dest \in variables
              n == Get(st.counters, instr.dest, 0) + 1
              new_var == VersionName(instr.dest, n)
              new_instr == [instr EXCEPT !.args = new_args,
                                         !.dest = IF renamed THEN new_var ELSE instr.dest]
          IN RenameInstrs(cfg, pn, pairs, ord, variables, block_name, i + 1,
               [stacks |-> IF renamed
                           THEN Put(st.stacks, instr.dest,
                                    Append(Get(st.stacks, instr.dest, <<>>), new_var))
                           ELSE st.stacks,
                counters |-> IF renamed THEN Put(st.counters, instr.dest, n) ELSE st.counters,
                new_instrs |-> st.new_instrs \o sets \o <<new_instr>>])

\* rename_block and its recursion into the children of the dominator tree; st holds
\* stacks, counters and blocks (block name -> its new instruction list)
RECURSIVE rename_block(_, _, _, _, _, _, _, _)
RECURSIVE RenameChildren(_, _, _, _, _, _, _, _, _)
rename_block(cfg, pn, pairs, ord, variables, dom_tree, block_name, st) ==
  LET phi_vars == IterSeq(Get(pn.phi, block_name, {}), ord)
      var_type(var) ==
        LET typed == {i \in DOMAIN AllInstrs(cfg) :
                        AllInstrs(cfg)[i].dest = var /\ AllInstrs(cfg)[i].type # ""}
        IN IF typed = {} THEN "int" ELSE AllInstrs(cfg)[Max(typed)].type
      gets == [j \in DOMAIN phi_vars |->
                 Mk("get", PhiVarName(pairs, block_name, phi_vars[j]),
                    var_type(phi_vars[j]), <<>>, <<>>, 0)]
      G[j \in 0..Len(phi_vars)] ==
        IF j = 0 THEN st.stacks
        ELSE Put(G[j - 1], phi_vars[j],
                 Append(Get(G[j - 1], phi_vars[j], <<>>),
                        PhiVarName(pairs, block_name, phi_vars[j])))
      body == RenameInstrs(cfg, pn, pairs, ord, variables, block_name, 1,
                [stacks |-> G[Len(phi_vars)], counters |-> st.counters, new_instrs |-> gets])
      instrs == block_by_name(cfg.blocks, block_name).instrs
      has_term == \E k \in DOMAIN instrs : is_terminator(instrs[k])
      tail == IF has_term THEN <<>>
              ELSE SuccessorSets(cfg, pn, pairs, ord, block_name, body.stacks)
      done == RenameChildren(cfg, pn, pairs, ord, variables, dom_tree,
                Get(dom_tree, block_name, <<>>), 1,
                [stacks |-> body.stacks, counters |-> body.counters,
                 blocks |-> Put(st.blocks, block_name, body.new_instrs \o tail)])
  IN [done EXCEPT !.stacks = st.stacks]

RenameChildren(cfg, pn, pairs, ord, variables, dom_tree, children, i, st) ==
  IF i > Len(children) THEN st
  ELSE RenameChildren(cfg, pn, pairs, ord, variables, dom_tree, children, i + 1,
         rename_block(cfg, pn, pairs, ord, variables, dom_tree, children[i], st))

\* rename_variables: the blocks of cfg with the instruction lists rename_block gave
\* them; a block it did not visit keeps its instructions
rename_variables(cfg, pn, variables, func_args, ord) ==
  LET pairs == PhiPairs(pn, ord)
      imm_dom == compute_imm_dom(compute_dominators(cfg), entry_name(cfg))
      dom_tree == build_dom_tree(imm_dom, entry_name(cfg))
      st0 == [stacks |-> [a \in func_args |-> <<a>>],
              counters |-> [v \in {pairs[i][2] : i \in DOMAIN pairs} |->
                              Cardinality({i \in DOMAIN pairs : pairs[i][2] = v})],
              blocks |-> EmptyMap]
      st == IF entry_name(cfg) = NoName THEN st0
            ELSE rename_block(cfg, pn, pairs, ord, variables, dom_tree, entry_name(cfg), st0)
  IN [cfg EXCEPT !.blocks =
        [i \in DOMAIN cfg.blocks |->
           [cfg.blocks[i] EXCEPT !.instrs = Get(st.blocks, cfg.blocks[i].name, @)]]]

\* helpers_lesson5.linearize_cfg: chain placement from the entry, unreachable blocks
\* appended, labels for edge targets, jmp where the fallthrough is not the next block
linearize_cfg(cfg) == linearize_cfg_l4(cfg)

\* lines 319-335: the block <entry>.entry_init placed in front of an entry that
\* receives a get for a function parameter
WithEntryInit(cfg, pn, func_args) ==
  LET entry == entry_name(cfg)
      pre_entry == entry \o ".entry_init"
  IN IF entry \in DOMAIN pn.phi /\ pn.phi[entry] \cap func_args # {}
     THEN [cfg EXCEPT
             !.blocks = <<[name |-> pre_entry, instrs |-> <<Jmp(entry)>>]>> \o cfg.blocks,
             !.edges = Put(cfg.edges, pre_entry, <<entry>>),
             !.preds = Put(Put(cfg.preds, pre_entry, Get(cfg.preds, pre_entry, <<>>)), entry,
                           IF pre_entry \in Range(Get(cfg.preds, entry, <<>>))
                           THEN cfg.preds[entry]
                           ELSE <<pre_entry>> \o Get(cfg.preds, entry, <<>>)),
             !.entry = pre_entry]
     ELSE cfg

\* to_ssa_function, with the sets of the run iterated in the order ord
to_ssa_function_in(f, ord) ==
  LET cfg == build_cfg_for_function(f)
      func_args == Range(f.args)
      reassigned_args == {a \in func_args : \E ins \in Range(AllInstrs(cfg)) : ins.dest = a}
      variables == (collect_variables(cfg) \ func_args) \cup reassigned_args
      pn == insert_phi_nodes(cfg, variables, func_args, ord)
  IN linearize_cfg(rename_variables(WithEntryInit(cfg, pn, func_args), pn,
                                    variables, func_args, ord))

\* variable names in ascending string order, after the block names
VarUniverse == <<"p", "x", "y">>

SortedOrder == NameUniverse \o VarUniverse

to_ssa_function(f) == to_ssa_function_in(f, SortedOrder)

\* from_ssa_function: a set of a shadow variable that has a get becomes an id, the
\* other sets and every get are dropped
from_ssa_function(f) ==
  LET cfg == build_cfg_for_function(f)
      shadow_vars == {ins.dest : ins \in {x \in Range(AllInstrs(cfg)) :
                                            x.op = "get" /\ x.dest # ""}}
      Conv(ins) ==
        IF ins.op = "set"
        THEN IF Len(ins.args) >= 2 /\ ins.args[1] \in shadow_vars
             THEN <<Mk("id", ins.args[1], IF ins.type # "" THEN ins.type ELSE "int",
                       <<ins.args[2]>>, <<>>, 0)>>
             ELSE <<>>
        ELSE IF ins.op = "get" THEN <<>>
        ELSE <<ins>>
  IN linearize_cfg([cfg EXCEPT !.blocks =
       [i \in DOMAIN cfg.blocks |->
          [cfg.blocks[i] EXCEPT !.instrs =
             Flatten([k \in DOMAIN cfg.blocks[i].instrs |-> Conv(cfg.blocks[i].instrs[k])])]]])

-----------------------------------------------------------------------------
(* Reaching definitions (lesson4/reaching_defs.py over lesson4/DFA.py).  A  *)
(* fact is a set of definitions <<variable, block, index>>, the index       *)
(* counting from 0 as in the id "variable@block:index" that the analysis    *)
(* writes into the instruction.                                             *)

DefId(d, bname, i) == d \o "@" \o bname \o ":" \o ToString(i)

AnnotateInstr(ins, bname, i) ==
  IF instr_def(ins) # NoName THEN [ins EXCEPT !.defid = DefId(ins.dest, bname, i - 1)]
  ELSE ins

annotate_def_sites(cfg) ==
  [cfg EXCEPT !.blocks = Tuple([b \in DOMAIN cfg.blocks |->
     [name |-> cfg.blocks[b].name,
      instrs |-> Tuple([i \in DOMAIN cfg.blocks[b].instrs |->
                   AnnotateInstr(cfg.blocks[b].instrs[i], cfg.blocks[b].name, i)])]])]

\* ReachingDefs.transfer for the instruction at position i of block bname
transfer(fact, ins, bname, i) ==
  IF instr_def(ins) = NoName THEN fact
  ELSE {d \in fact : d[1] # ins.dest} \cup {<<ins.dest, bname, i - 1>>}

\* the fact after the first k instructions of a block entered with fact
RECURSIVE FactAfter(_, _, _, _)
FactAfter(instrs, bname, fact, k) ==
  IF k = 0 THEN fact
  ELSE transfer(FactAfter(instrs, bname, fact, k - 1), instrs[k], bname, k)

\* meet_many over the predecessors the DFA derives from the edges
RdIn(cfg, outs, i) ==
  UNION {outs[q] : q \in {r \in DOMAIN cfg.blocks :
           cfg.blocks[i].name \in Range(Get(cfg.edges, cfg.blocks[r].name, <<>>))}}

RECURSIVE RdSweep(_, _, _)
RdSweep(cfg, outs, i) ==
  IF i > Len(cfg.blocks) THEN outs
  ELSE RdSweep(cfg,
         [outs EXCEPT ![i] = FactAfter(cfg.blocks[i].instrs, cfg.blocks[i].name,
                                       RdIn(cfg, outs, i), Len(cfg.blocks[i].instrs))],
         i + 1)

\* DFA.run: the worklist ends in the least solution, which the sweeps reach too
RECURSIVE RdSolve(_, _)
RdSolve(cfg, outs) ==
  With(RdSweep(cfg, outs, 1), LAMBDA o2 : IF o2 = outs THEN outs ELSE RdSolve(cfg, o2))

\* run_analysis: in_lattice, the fact at the start of every block
run_analysis(cfg) ==
  With(RdSolve(cfg, [i \in DOMAIN cfg.blocks |-> {}]), LAMBDA outs :
    Tuple([i \in DOMAIN cfg.blocks |-> RdIn(cfg, outs, i)]))

-----------------------------------------------------------------------------
(* The dataflow solver (lesson4/DFA.py) as a worklist machine, with the    *)
(* three analyses: liveness ("live", backward), reaching definitions       *)
(* ("rd", forward) and available expressions ("ae", forward, the entry      *)
(* seeded with bottom).  Blocks are numbered from 1 in the order of the CFG.*)

DfaKinds == {"live", "rd", "ae"}

DfaForward(kind) == kind # "live"

\* available_exprs.py
AE_PURE_OPS == {"add", "sub", "mul", "div", "and", "or", "eq", "lt", "gt"}

is_pure_expr(ins) == ins.dest # NoName /\ ins.op \in AE_PURE_OPS /\ ins.args # <<>>

expr_key(ins) == <<ins.op, ins.args>>

compute_universe(cfg) ==
  {expr_key(ins) : ins \in {x \in Range(AllInstrs(cfg)) : is_pure_expr(x)}}

\* AvailableExprs.transfer
ae_transfer(fact, ins) ==
  (IF instr_def(ins) # NoName THEN {e \in fact : ins.dest \notin Range(e[2])} ELSE fact)
  \cup (IF is_pure_expr(ins) THEN {expr_key(ins)} ELSE {})

\* LiveVars.transfer
live_transfer(fact, ins) ==
  (IF instr_def(ins) # NoName THEN fact \ {ins.dest} ELSE fact) \cup Range(instr_uses(ins))

\* fact_cls.transfer for the instruction at position i of block bname
DfaTransfer(kind, fact, ins, bname, i) ==
  CASE kind = "live" -> live_transfer(fact, ins)
    [] kind = "rd" -> transfer(fact, ins, bname, i)
    [] OTHER -> ae_transfer(fact, ins)

\* lines 57-73 of DFA.__init__ and the UNIVERSE run_analysis sets: the CFG with
\* succ and pred as block numbers
DfaSucc(cfg, b) ==
  With(Get(cfg.edges, cfg.blocks[b].name, <<>>), LAMBDA names :
    Tuple([i \in DOMAIN names |-> orig_index(cfg.blocks, names[i])]))

DfaNew(cfg) ==
  With(Tuple([b \in DOMAIN cfg.blocks |-> DfaSucc(cfg, b)]), LAMBDA succ :
    [blocks |-> cfg.blocks,
     edges |-> cfg.edges,
     entry |-> cfg.entry,
     succ |-> succ,
     pred |-> Tuple([b \in DOMAIN cfg.blocks |->
                Flatten([q \in DOMAIN cfg.blocks |->
                   [i \in 1..Len(SelectSeq(succ[q], LAMBDA w : w = b)) |-> q]])]),
     universe |-> compute_universe(cfg)])

DfaTop(kind, dfa) == IF kind = "ae" THEN dfa.universe ELSE {}

\* meet_many: top merged with every fact of F
meet_many(kind, dfa, F) ==
  IF kind = "ae" THEN {e \in dfa.universe : \A f \in F : e \in f} ELSE UNION F

\* the fact behind instruction k of a block entered with fact
RECURSIVE DfaDown(_, _, _, _, _)
DfaDown(kind, instrs, bname, fact, k) ==
  IF k = 0 THEN fact
  ELSE DfaTransfer(kind, DfaDown(kind, instrs, bname, fact, k - 1), instrs[k], bname, k)

\* the fact in front of instruction k of a block left with fact
RECURSIVE DfaUp(_, _, _, _, _)
DfaUp(kind, instrs, bname, fact, k) ==
  IF k > Len(instrs) THEN fact
  ELSE DfaTransfer(kind, DfaUp(kind, instrs, bname, fact, k + 1), instrs[k], bname, k)

\* lines 117-121: the lattices, the seed and the worklist at the start of run,
\* with the per-instruction tables still empty (lines 52-53)
DfaStart(kind, dfa) ==
  [kind |-> kind,
   work |-> Tuple([i \in DOMAIN dfa.blocks |-> i]),
   work_in |-> Tuple([i \in DOMAIN dfa.blocks |->
                 IF kind = "ae" /\ dfa.blocks[i].name = dfa.entry THEN {}
                 ELSE DfaTop(kind, dfa)]),
   work_out |-> Tuple([i \in DOMAIN dfa.blocks |-> DfaTop(kind, dfa)]),
   inst_in_lattice |-> <<>>,
   inst_out_lattice |-> <<>>]

\* lines 127 and 137: the fact block b is entered with (left with, backward)
DfaMeet(dfa, d, b) ==
  IF DfaForward(d.kind)
  THEN IF dfa.pred[b] # <<>>
       THEN meet_many(d.kind, dfa, {d.work_out[q] : q \in Range(dfa.pred[b])})
       ELSE d.work_in[b]
  ELSE IF dfa.succ[b] # <<>>
       THEN meet_many(d.kind, dfa, {d.work_in[q] : q \in Range(dfa.succ[b])})
       ELSE d.work_out[b]

\* lines 128-147: the new in- and out-fact of block b and the facts in front of
\* and behind each of its instructions, given the fact met
DfaBlock(dfa, d, b, met) ==
  With(dfa.blocks[b].instrs, LAMBDA instrs :
    IF DfaForward(d.kind)
    THEN [in |-> met,
          out |-> DfaDown(d.kind, instrs, dfa.blocks[b].name, met, Len(instrs)),
          inst_in |-> Tuple([k \in DOMAIN instrs |->
                        DfaDown(d.kind, instrs, dfa.blocks[b].name, met, k - 1)]),
          inst_out |-> Tuple([k \in DOMAIN instrs |->
                         DfaDown(d.kind, instrs, dfa.blocks[b].name, met, k)])]
    ELSE [in |-> DfaUp(d.kind, instrs, dfa.blocks[b].name, met, 1),
          out |-> met,
          inst_in |-> Tuple([k \in DOMAIN instrs |->
                        DfaUp(d.kind, instrs, dfa.blocks[b].name, met, k)]),
          inst_out |-> Tuple([k \in DOMAIN instrs |->
                         DfaUp(d.kind, instrs, dfa.blocks[b].name, met, k + 1)])])

\* a variant of the test of line 149 that finds a change every time
DfaChanged_always(new, old_in, old_out) == TRUE

\* a variant of the test of line 149 that compares the in-facts only
DfaChanged_in(new, old_in, old_out) == new.in # old_in

\* line 149
DfaChanged(new, old_in, old_out) == new.in # old_in \/ new.out # old_out

\* lines 149-157: the facts and the worklist after block b, the head of the
\* worklist, got the facts new
DfaUpdate(dfa, d, b, new) ==
  IF DfaChanged(new, d.work_in[b], d.work_out[b])
  THEN [d EXCEPT !.work = Tail(d.work)
                           \o (IF DfaForward(d.kind) THEN dfa.succ[b] ELSE dfa.pred[b]),
                 !.work_in[b] = new.in,
                 !.work_out[b] = new.out,
                 !.inst_in_lattice = Put(d.inst_in_lattice, b, new.inst_in),
                 !.inst_out_lattice = Put(d.inst_out_lattice, b, new.inst_out)]
  ELSE [d EXCEPT !.work = Tail(d.work),
                 !.inst_in_lattice = Put(d.inst_in_lattice, b, new.inst_in),
                 !.inst_out_lattice = Put(d.inst_out_lattice, b, new.inst_out)]

-----------------------------------------------------------------------------
(* Loop invariant code motion (lesson8/licm.py).  A location is             *)
(* <<block, index>> with the index counting from 1.                         *)

PURE_OPS ==
  {"const", "id", "add", "sub", "mul", "and", "or", "xor", "not",
   "eq", "lt", "le", "gt", "ge"}

compute_dom_sets(cfg) == compute_dominators(cfg)

\* the back edges <<tail, head>> in the order of the edge map
find_back_edges(cfg, dom_sets) ==
  Flatten([b \in DOMAIN cfg.blocks |->
    With(SelectSeq(Get(succs_by_name(cfg), cfg.blocks[b].name, <<>>),
                   LAMBDA v : v \in Get(dom_sets, cfg.blocks[b].name, {})), LAMBDA heads :
      [k \in DOMAIN heads |-> <<cfg.blocks[b].name, heads[k]>>])])

RECURSIVE LoopClosure(_, _, _, _, _)
LoopClosure(preds, head, dom_sets, work, loop) ==
  With({x \in work : x \notin loop /\ head \in Get(dom_sets, x, {})}, LAMBDA new :
    IF new = {} THEN loop
    ELSE LoopClosure(preds, head, dom_sets,
           (UNION {Range(Get(preds, x, <<>>)) : x \in new}) \ {head}, loop \cup new))

natural_loop(cfg, tail, head, dom_sets) ==
  LoopClosure(preds_by_name(cfg), head, dom_sets, {tail}, {head})

loop_exits(cfg, loop_nodes) ==
  {n \in loop_nodes : \E sc \in Range(Get(succs_by_name(cfg), n, <<>>)) : sc \notin loop_nodes}

RECURSIVE FreshName(_, _, _)
FreshName(existing, base, idx) ==
  IF (IF idx = 0 THEN base ELSE base \o "." \o ToString(idx)) \in existing
  THEN FreshName(existing, base, idx + 1)
  ELSE IF idx = 0 THEN base ELSE base \o "." \o ToString(idx)

PreheaderName(cfg, header) == FreshName(BlockNames(cfg.blocks), header \o ".preheader", 0)

\* lines 143-152: the terminator of an outside predecessor names the preheader
Retarget(body, header, pre) ==
  IF body # <<>> /\ body[Len(body)].op \in {"br", "jmp"}
  THEN [body EXCEPT ![Len(body)].labels =
          [k \in DOMAIN body[Len(body)].labels |->
             IF body[Len(body)].labels[k] = header THEN pre ELSE body[Len(body)].labels[k]]]
  ELSE Append(body, Jmp(pre))

\* lines 141-165 for one outside predecessor q
RewirePred(cfg, header, pre, q) ==
  [cfg EXCEPT
     !.blocks = Tuple([b \in DOMAIN cfg.blocks |->
                  IF b = orig_index(cfg.blocks, q)
                  THEN [name |-> cfg.blocks[b].name,
                        instrs |-> Retarget(cfg.blocks[b].instrs, header, pre)]
                  ELSE cfg.blocks[b]]),
     !.edges = Put(cfg.edges, q,
                   IF q \in DOMAIN cfg.edges
                   THEN [k \in DOMAIN cfg.edges[q] |->
                           IF cfg.edges[q][k] = header THEN pre ELSE cfg.edges[q][k]]
                   ELSE <<pre>>),
     !.preds = Put(Put(cfg.preds, header, SelectSeq(cfg.preds[header], LAMBDA x : x # q)),
                   pre,
                   IF q \in Range(cfg.preds[pre]) THEN cfg.preds[pre]
                   ELSE Append(cfg.preds[pre], q))]

RECURSIVE RewireAll(_, _, _, _, _)
RewireAll(cfg, header, pre, qs, k) ==
  IF k > Len(qs) THEN cfg
  ELSE RewireAll(RewirePred(cfg, header, pre, qs[k]), header, pre, qs, k + 1)

\* the block pre in front of the blocks, entered from every predecessor of the
\* header outside the loop
ensure_preheader(cfg, loop_nodes, header, pre) ==
  RewireAll(
    [cfg EXCEPT
       !.blocks = <<[name |-> pre, instrs |-> <<Jmp(header)>>]>> \o cfg.blocks,
       !.edges = Put(cfg.edges, pre, <<header>>),
       !.preds = Put(Put(cfg.preds, pre, Get(cfg.preds, pre, <<>>)), header,
                     IF pre \in Range(Get(cfg.preds, header, <<>>))
                     THEN cfg.preds[header]
                     ELSE <<pre>> \o Get(cfg.preds, header, <<>>))],
    header, pre,
    SelectSeq(Get(preds_by_name(cfg), header, <<>>), LAMBDA q : q \notin loop_nodes), 1)

no_other_defs_in_loop(cfg, loop_nodes, var) ==
  Cardinality(UNION {{<<b, i>> : i \in {j \in DOMAIN cfg.blocks[b].instrs :
                                          cfg.blocks[b].instrs[j].dest = var}} :
                     b \in {c \in DOMAIN cfg.blocks : cfg.blocks[c].name \in loop_nodes}}) <= 1

block_dominates_all(dom_sets, blk, targets) ==
  \A t \in targets : blk \in Get(dom_sets, t, {})

\* lines 293-318: every operand has its reaching definitions outside the loop, or
\* its only one inside is hoistable already
OperandsReady(loop_nodes, hoistable, fact, ins) ==
  \A k \in DOMAIN ins.args :
    With({d \in fact : d[1] = ins.args[k] /\ d[2] \in loop_nodes}, LAMBDA inside :
      inside = {}
      \/ (Cardinality(inside) = 1 /\ \A d \in inside : <<d[2], d[3] + 1>> \in hoistable))

\* lines 279-332 for the instruction at position i of block b
HoistableAt(cfg, loop_nodes, exits, dom_sets, facts, hoistable, b, i) ==
  /\ cfg.blocks[b].instrs[i].op \notin TERMINATORS
  /\ cfg.blocks[b].instrs[i].dest # NoName
  /\ cfg.blocks[b].instrs[i].op \in PURE_OPS
  /\ OperandsReady(loop_nodes, hoistable,
                   FactAfter(cfg.blocks[b].instrs, cfg.blocks[b].name, facts[b], i - 1),
                   cfg.blocks[b].instrs[i])
  /\ no_other_defs_in_loop(cfg, loop_nodes, cfg.blocks[b].instrs[i].dest)
  /\ block_dominates_all(dom_sets, cfg.blocks[b].name, exits)

RECURSIVE HoistScanBlock(_, _, _, _, _, _, _, _)
HoistScanBlock(cfg, loop_nodes, exits, dom_sets, facts, hoistable, b, i) ==
  IF i > Len(cfg.blocks[b].instrs) THEN hoistable
  ELSE HoistScanBlock(cfg, loop_nodes, exits, dom_sets, facts,
         IF HoistableAt(cfg, loop_nodes, exits, dom_sets, facts, hoistable, b, i)
         THEN hoistable \cup {<<cfg.blocks[b].name, i>>} ELSE hoistable,
         b, i + 1)

\* one pass of the for-loop over the loop blocks, taken in the order names
RECURSIVE HoistScan(_, _, _, _, _, _, _, _)
HoistScan(cfg, loop_nodes, exits, dom_sets, facts, hoistable, names, k) ==
  IF k > Len(names) THEN hoistable
  ELSE HoistScan(cfg, loop_nodes, exits, dom_sets, facts,
         HoistScanBlock(cfg, loop_nodes, exits, dom_sets, facts, hoistable,
                        orig_index(cfg.blocks, names[k]), 1),
         names, k + 1)

RECURSIVE HoistFix(_, _, _, _, _, _, _)
HoistFix(cfg, loop_nodes, exits, dom_sets, facts, hoistable, names) ==
  With(HoistScan(cfg, loop_nodes, exits, dom_sets, facts, hoistable, names, 1), LAMBDA h2 :
    IF h2 = hoistable THEN hoistable
    ELSE HoistFix(cfg, loop_nodes, exits, dom_sets, facts, h2, names))

\* the locations in the order sorted(..., key=(block, index)) gives
SortedLocs(items) ==
  Flatten([k \in DOMAIN SortNames({l[1] : l \in items}) |->
    With(SortNames({l[1] : l \in items})[k], LAMBDA nm :
      With(SortedSeq({l[2] : l \in {x \in items : x[1] = nm}}), LAMBDA idxs :
        [j \in DOMAIN idxs |-> <<nm, idxs[j]>>]))])

\* the instructions of block nm that are not at items
RECURSIVE KeepUnhoisted(_, _, _, _)
KeepUnhoisted(instrs, nm, items, i) ==
  IF i > Len(instrs) THEN <<>>
  ELSE (IF <<nm, i>> \in items THEN <<>> ELSE <<instrs[i]>>)
       \o KeepUnhoisted(instrs, nm, items, i + 1)

\* the instructions at items leave their blocks and enter the preheader in front of
\* its jmp
hoist_instructions(cfg, preheader, items) ==
  With(SortedLocs(items), LAMBDA locs :
  With([j \in DOMAIN locs |-> block_by_name(cfg.blocks, locs[j][1]).instrs[locs[j][2]]],
       LAMBDA moved :
    [cfg EXCEPT !.blocks = Tuple([b \in DOMAIN cfg.blocks |->
       IF cfg.blocks[b].name = preheader /\ b = orig_index(cfg.blocks, preheader)
       THEN [name |-> preheader,
             instrs |-> IF cfg.blocks[b].instrs # <<>>
                           /\ cfg.blocks[b].instrs[Len(cfg.blocks[b].instrs)].op \in TERMINATORS
                        THEN SubSeq(cfg.blocks[b].instrs, 1, Len(cfg.blocks[b].instrs) - 1)
                             \o moved
                             \o <<cfg.blocks[b].instrs[Len(cfg.blocks[b].instrs)]>>
                        ELSE cfg.blocks[b].instrs \o moved]
       ELSE IF b = orig_index(cfg.blocks, cfg.blocks[b].name)
       THEN [name |-> cfg.blocks[b].name,
             instrs |-> KeepUnhoisted(cfg.blocks[b].instrs, cfg.blocks[b].name, items, 1)]
       ELSE cfg.blocks[b]])]))

\* lines 259-340 for one back edge: the loop, the annotated CFG, the reaching
\* definitions, the hoistable locations and whether line 341 is reached
LicmLoop(cfg, dom_sets, tail, head, ord) ==
  With(natural_loop(cfg, tail, head, dom_sets), LAMBDA loop_nodes :
  With(annotate_def_sites(cfg), LAMBDA c1 :
  With(run_analysis(c1), LAMBDA facts :
  With(HoistFix(c1, loop_nodes, loop_exits(c1, loop_nodes), dom_sets, facts,
                {}, IterSeq(loop_nodes, ord)), LAMBDA hoistable :
    [head |-> head,
     loop_nodes |-> loop_nodes,
     c1 |-> c1,
     facts |-> facts,
     hoistable |-> hoistable,
     pre |-> PreheaderName(c1, head),
     hoists |-> hoistable # {}
                /\ SelectSeq(Get(preds_by_name(c1), head, <<>>),
                             LAMBDA q : q \notin loop_nodes) # <<>>]))))

\* lines 341-342, for the loop r
LicmHoist(r) ==
  IF r.hoists
  THEN hoist_instructions(ensure_preheader(r.c1, r.loop_nodes, r.head, r.pre),
                          r.pre, r.hoistable)
  ELSE r.c1

\* lines 258-342 for one back edge, on the CFG as the earlier back edges left it
LicmBackEdge(cfg, dom_sets, tail, head, ord) ==
  LicmHoist(LicmLoop(cfg, dom_sets, tail, head, ord))

RECURSIVE LicmBackEdges(_, _, _, _, _)
LicmBackEdges(cfg, dom_sets, backs, k, ord) ==
  IF k > Len(backs) THEN cfg
  ELSE LicmBackEdges(LicmBackEdge(cfg, dom_sets, backs[k][1], backs[k][2], ord),
                     dom_sets, backs, k + 1, ord)

\* licm_function, with the sets of the run iterated in the order ord
licm_function_in(f, ord) ==
  With(build_cfg_for_function(f), LAMBDA cfg :
    IF cfg.blocks = <<>> THEN linearize_cfg(cfg)
    ELSE With(compute_dom_sets(cfg), LAMBDA dom_sets :
           linearize_cfg(LicmBackEdges(cfg, dom_sets, find_back_edges(cfg, dom_sets), 1, ord))))

licm_function(f) == licm_function_in(f, SortedOrder)

-----------------------------------------------------------------------------
(* Trace injection (lesson12/trace_inject.py).  A program is the sequence  *)
(* of its functions, each [name, args, instrs].                            *)

TRACE_FUNC_NAME == "__trace_main"
TRACE_META_FUNC_NAME == "__trace_meta_main"
ABORT_LABEL == "__trace_abort"

Fn(name, args, instrs) == [name |-> name, args |-> args, instrs |-> instrs]

\* a variant that returns the first of several functions called name
find_func_first(funcs, name) ==
  LET matches == {i \in DOMAIN funcs : funcs[i].name = name}
  IN IF matches # {} THEN Min(matches) ELSE 0

\* the index of the one function called name; 0 models SystemExit (none, or several)
find_func(funcs, name) ==
  LET matches == {i \in DOMAIN funcs : funcs[i].name = name}
  IN IF Cardinality(matches) = 1 THEN CHOOSE i \in matches : TRUE ELSE 0

\* <<>> models None
get_stop_index_from_meta(p) ==
  LET meta == find_func(p, TRACE_META_FUNC_NAME)
      hits == IF meta = 0 THEN {}
              ELSE {i \in DOMAIN p[meta].instrs :
                      /\ p[meta].instrs[i].op = "const"
                      /\ p[meta].instrs[i].dest = "__trace_stop_index"}
  IN IF hits = {} THEN <<>> ELSE <<p[meta].instrs[Min(hits)].value>>

\* a variant that puts a fresh continuation label at the front of main's body
continuation_at_front(main_instrs, stop_index) ==
  LET reuse == stop_index < Len(main_instrs) /\ is_label(main_instrs[stop_index + 1])
  IN [label |-> IF reuse THEN main_instrs[stop_index + 1].labels[1]
                ELSE "__trace_continuation",
      instrs |-> IF reuse THEN main_instrs
                 ELSE <<Lbl("__trace_continuation")>> \o main_instrs]

\* the continuation label and main's instruction list once the label stands at
\* stop_index
continuation(main_instrs, stop_index) ==
  LET reuse == stop_index < Len(main_instrs) /\ is_label(main_instrs[stop_index + 1])
  IN [label |-> IF reuse THEN main_instrs[stop_index + 1].labels[1]
                ELSE "__trace_continuation",
      instrs |-> IF reuse THEN main_instrs
                 ELSE SubSeq(main_instrs, 1, stop_index)
                      \o <<Lbl("__trace_continuation")>>
                      \o SubSeq(main_instrs, stop_index + 1, Len(main_instrs))]

\* inject_trace(p): ok is FALSE when the call raises; prog is the value returned;
\* arg is the value of the caller's program object p when the call ends
inject_trace(p) ==
  LET main == find_func(p, "main")
      trace == find_func(p, TRACE_FUNC_NAME)
      stop == get_stop_index_from_meta(p)
      failed == [ok |-> FALSE, prog |-> <<>>, arg |-> p]
  IN IF main = 0 \/ trace = 0 \/ stop = <<>> THEN failed
     ELSE IF ~(0 <= stop[1] /\ stop[1] <= Len(p[main].instrs)) THEN failed
     ELSE LET cont == continuation(p[main].instrs, stop[1])
              new_instrs == <<Mk("speculate", "", "", <<>>, <<>>, 0)>>
                            \o p[trace].instrs
                            \o <<Mk("commit", "", "", <<>>, <<>>, 0),
                                 Jmp(cont.label), Lbl(ABORT_LABEL)>>
                            \o cont.instrs
              kept == SelectSeq([p EXCEPT ![main].instrs = new_instrs],
                        LAMBDA f : f.name \notin {TRACE_FUNC_NAME, TRACE_META_FUNC_NAME})
          IN [ok |-> TRUE, prog |-> kept, arg |-> kept]

-----------------------------------------------------------------------------
(* Bounded input sets                                                      *)

SeqsUpTo(A, n) == UNION {[1..k -> A] : k \in 0..n}

LabelsOf(instrs) == {instrs[i].labels[1] : i \in {j \in DOMAIN instrs : is_label(instrs[j])}}

\* labels are unique and every br/jmp names a label of the function
WellFormed(instrs) ==
  /\ \A i, j \in DOMAIN instrs :
       is_label(instrs[i]) /\ is_label(instrs[j]) /\ instrs[i].labels[1] = instrs[j].labels[1] => i = j
  /\ \A i \in DOMAIN instrs :
       instrs[i].op \in {"br", "jmp"} => Range(instrs[i].labels) \subseteq LabelsOf(instrs)

ArgVals == {<<0>>, <<1>>}

Idle == [args |-> <<>>, instrs |-> <<>>]

-----------------------------------------------------------------------------
(* Specification SpecCfg: build the CFG of a function and linearize it     *)
(* again, with the lesson3 and with the lesson4 linearizer.                *)

MaxCfgLen == 4

CfgAlphabet ==
  {Lbl("L1"), Lbl("L2"), PrintI("p"), CallI("p", "p"),
   Jmp("L1"), Jmp("L2"), Br("p", "L1", "L2"), RetI}

CfgInputs == {s \in SeqsUpTo(CfgAlphabet, MaxCfgLen) : WellFormed(s)}

InitCfg ==
  /\ phase = "input"
  /\ func \in {[args |-> <<"p">>, instrs |-> s] : s \in CfgInputs}
  /\ argv \in ArgVals
  /\ out = Idle
  /\ prog = <<>>
  /\ ret = <<>>
  /\ order = <<>>

RoundTripL3 ==
  /\ phase = "input"
  /\ phase' = "l3"
  /\ out' = linearize_cfg_l3(build_cfg_for_function(func))
  /\ UNCHANGED <<func, argv, prog, ret, order>>

RoundTripL4 ==
  /\ phase = "input"
  /\ phase' = "l4"
  /\ out' = linearize_cfg_l4(build_cfg_for_function(func))
  /\ UNCHANGED <<func, argv, prog, ret, order>>

\* lvn.py main on one function
LvnOnly ==
  /\ phase = "input"
  /\ phase' = "lvn"
  /\ out' = lvn_main(func)
  /\ UNCHANGED <<func, argv, prog, ret, order>>

\* lvn.py main, then tdce.py main on its output
LvnThenTdce ==
  /\ phase = "input"
  /\ phase' = "lvn_tdce"
  /\ \E g \in {lvn_main(func)} : out' = tdce_main(g)
  /\ UNCHANGED <<func, argv, prog, ret, order>>

\* tdce.py main on one function
TdceOnly ==
  /\ phase = "input"
  /\ phase' = "tdce"
  /\ out' = tdce_main(func)
  /\ UNCHANGED <<func, argv, prog, ret, order>>

NextCfg == RoundTripL3 \/ RoundTripL4 \/ LvnOnly \/ TdceOnly

SpecCfg == InitCfg /\ [][NextCfg]_vars

\* C5: the linearized CFG of f runs the same observable instructions as f
\* and stops where f stops, for both linearizers.
C5_RoundTripEquivalent ==
  phase \in {"l3", "l4"} => SameOutput(func, out, argv)

\* the same statement for the lesson3 linearizer alone
C5_RoundTripL3 == phase = "l3" => SameOutput(func, out, argv)

\* the instructions of the blocks of f that cannot be reached from the entry
UnreachableInstrs(f) ==
  With(build_cfg_for_function(f), LAMBDA cfg :
    UNION {Range(cfg.blocks[i].instrs) :
             i \in {j \in DOMAIN cfg.blocks :
                      cfg.blocks[j].name \notin reachable_block_names(cfg)}})

Occurrences(instrs, ins) == Cardinality({i \in DOMAIN instrs : instrs[i] = ins})

\* C13: every instruction of an unreachable block is still there, as often as
\* before, in the output of the LVN driver, of the TDCE driver and of the
\* lesson4 linearizer.
C13_UnreachableBlocksPreserved ==
  phase \in {"lvn", "tdce", "l4"} =>
    \A ins \in UnreachableInstrs(func) :
      Occurrences(out.instrs, ins) >= Occurrences(func.instrs, ins)

\* the same statement for the lesson4 linearizer alone
C13_PreservedByL4 ==
  phase = "l4" =>
    \A ins \in UnreachableInstrs(func) :
      Occurrences(out.instrs, ins) >= Occurrences(func.instrs, ins)

-----------------------------------------------------------------------------
(* Specification SpecLvn: the LVN driver followed by the TDCE driver on a  *)
(* straight-line function of one parameter p.                              *)

MaxLvnLen == 4

LvnAlphabet ==
  {Const("x", 0), Const("y", 2), Const("x", 0 - 7),
   Op2("add", "x", "p", "y"), Op2("add", "y", "x", "p"), Op2("div", "x", "x", "y"),
   Op1("id", "y", "x"), CallI("x", "p"), PrintI("x"), PrintI("y")}

LvnInputs == SeqsUpTo(LvnAlphabet, MaxLvnLen)

InitLvn ==
  /\ phase = "input"
  /\ func \in {[args |-> <<"p">>, instrs |-> s] : s \in LvnInputs}
  /\ argv \in ArgVals
  /\ out = Idle
  /\ prog = <<>>
  /\ ret = <<>>
  /\ order = <<>>

NextLvn == LvnThenTdce \/ TdceOnly

SpecLvn == InitLvn /\ [][NextLvn]_vars

\* C1: the function obtained by LVN on every block and then TDCE to fixpoint
\* prints the same sequence of values as the original, for every argument value.
C1_LvnTdcePreservesOutput ==
  phase = "lvn_tdce" => SameOutput(func, out, argv)

-----------------------------------------------------------------------------
(* Specification SpecDom: the dominator sets of the CFG of a function of   *)
(* MaxDomBlocks labelled blocks, each ending in any terminator, computed   *)
(* with the reachable names iterated in any order.                         *)

MaxDomBlocks == 3

DomLabel(i) == "L" \o ToString(i)

\* the ways block i can end: fall through, jmp, br, ret
DomEnds ==
  {<<>>, <<RetI>>}
  \cup {<<Jmp(DomLabel(j))>> : j \in 1..MaxDomBlocks}
  \cup {<<Br("p", DomLabel(jk[1]), DomLabel(jk[2]))>> :
          jk \in {x \in (1..MaxDomBlocks) \X (1..MaxDomBlocks) : x[1] < x[2]}}

DomInputs ==
  {Flatten([i \in 1..MaxDomBlocks |-> <<Lbl(DomLabel(i))>> \o e[i]]) :
     e \in [1..MaxDomBlocks -> DomEnds]}

InitDom ==
  /\ phase = "input"
  /\ func \in {[args |-> <<"p">>, instrs |-> s] : s \in DomInputs}
  /\ argv = <<0>>
  /\ out = Idle
  /\ prog = <<>>
  /\ ret = <<>>
  /\ order = <<>>

ComputeDominators ==
  /\ phase = "input"
  /\ phase' = "dom"
  /\ \E ord \in Perms(reachable_block_names(build_cfg_for_function(func))) :
       /\ order' = ord
       /\ ret' = compute_dominators_in(build_cfg_for_function(func), ord)
  /\ UNCHANGED <<func, argv, out, prog>>

\* the calls that follow compute_dominators in compute_dominance_frontier of
\* to_ssa.py: the candidates compute_imm_dom finds, the immediate dominators
\* and the dominance frontier
ComputeFrontier ==
  /\ phase = "dom"
  /\ phase' = "df"
  /\ \E cfg \in {build_cfg_for_function(func)} :
       \E imm_dom \in {compute_imm_dom(ret, entry_name(cfg))} :
         ret' = [dom |-> ret,
                 candidates |-> [b \in DOMAIN ret |-> ImmDomCandidates(ret, b)],
                 imm_dom |-> imm_dom,
                 df |-> compute_dominance_frontier(cfg, imm_dom)]
  /\ UNCHANGED <<func, argv, out, prog, order>>

NextDom == ComputeDominators \/ ComputeFrontier

SpecDom == InitDom /\ [][NextDom]_vars

-----------------------------------------------------------------------------
(* Specification SpecTrace: inject_trace on a program of up to MaxFuncs    *)
(* functions drawn from main, __trace_main, __trace_meta_main with every   *)
(* stop index around main's length, and an unrelated function.             *)

MaxFuncs == 4

TraceMainBody == <<PrintI("p"), Lbl("L1"), PrintI("p")>>

TraceBody == <<Mk("guard", "", "", <<"p">>, <<ABORT_LABEL>>, 0), PrintI("p")>>

StopValues == (0 - 1)..(Len(TraceMainBody) + 1)

TraceFuncs ==
  {Fn("main", <<"p">>, TraceMainBody), Fn("main", <<"p">>, <<>>),
   Fn(TRACE_FUNC_NAME, <<"p">>, TraceBody),
   Fn("helper", <<"p">>, <<PrintI("p"), RetI>>),
   Fn(TRACE_META_FUNC_NAME, <<>>, <<Const("other", 1)>>)}
  \cup {Fn(TRACE_META_FUNC_NAME, <<>>, <<Const("__trace_stop_index", n)>>) : n \in StopValues}

InitTrace ==
  /\ phase = "input"
  /\ prog \in SeqsUpTo(TraceFuncs, MaxFuncs)
  /\ func = Idle
  /\ argv = <<0>>
  /\ out = Idle
  /\ ret = <<>>
  /\ order = <<>>

\* the caller holds prog, calls inject_trace(prog) and keeps what it returns in ret
InjectTrace ==
  /\ phase = "input"
  /\ phase' = "injected"
  /\ ret' = [ok |-> inject_trace(prog).ok, prog |-> inject_trace(prog).prog]
  /\ prog' = inject_trace(prog).arg
  /\ UNCHANGED <<func, argv, out, order>>

NextTrace == InjectTrace

SpecTrace == InitTrace /\ [][NextTrace]_vars

\* C7: when inject_trace succeeds with stop index N, main's new body is
\* speculate, the instructions of __trace_main, commit, jmp cont_label, label
\* __trace_abort, then main's body in which cont_label is the label at position N
\* (the label already there, or else an inserted __trace_continuation); the trace
\* functions are gone and every other function is unchanged, in its order.
C7_InjectedShape ==
  [][phase' = "injected" /\ ret'.ok =>
      LET IsTrace(f) == f.name \in {TRACE_FUNC_NAME, TRACE_META_FUNC_NAME}
          Other(f) == ~IsTrace(f) /\ f.name # "main"
          old_main == CHOOSE f \in Range(prog) : f.name = "main"
          new_main == CHOOSE f \in Range(ret'.prog) : f.name = "main"
          tr == (CHOOSE f \in Range(prog) : f.name = TRACE_FUNC_NAME).instrs
          meta == CHOOSE f \in Range(prog) : f.name = TRACE_META_FUNC_NAME
          N == (CHOOSE i \in Range(meta.instrs) : i.dest = "__trace_stop_index").value
          T == Len(tr)
          body == SubSeq(new_main.instrs, T + 5, Len(new_main.instrs))
          cont == new_main.instrs[T + 3].labels[1]
          Without(q, k) == SubSeq(q, 1, k - 1) \o SubSeq(q, k + 1, Len(q))
      IN /\ Len(new_main.instrs) >= T + 5
         /\ new_main.instrs[1].op = "speculate"
         /\ SubSeq(new_main.instrs, 2, T + 1) = tr
         /\ new_main.instrs[T + 2].op = "commit"
         /\ new_main.instrs[T + 3] = Jmp(cont)
         /\ new_main.instrs[T + 4] = Lbl(ABORT_LABEL)
         /\ body[N + 1] = Lbl(cont)
         /\ \/ body = old_main.instrs
            \/ /\ cont = "__trace_continuation"
               /\ Without(body, N + 1) = old_main.instrs
               /\ (N = Len(old_main.instrs) \/ ~is_label(old_main.instrs[N + 1]))
         /\ \A f \in Range(ret'.prog) : ~IsTrace(f)
         /\ SelectSeq(ret'.prog, Other) = SelectSeq(prog, Other)
         /\ Cardinality({i \in DOMAIN ret'.prog : ret'.prog[i].name = "main"}) = 1
         /\ [i \in DOMAIN ret'.prog |-> ret'.prog[i].name]
              = SelectSeq([i \in DOMAIN prog |-> prog[i].name],
                          LAMBDA n : n \notin {TRACE_FUNC_NAME, TRACE_META_FUNC_NAME})
  ]_vars

\* a successful injection that inserted __trace_continuation inside main's body and
\* kept another function
C7_Witness ==
  /\ phase = "injected"
  /\ ret.ok
  /\ \E f \in Range(ret.prog) : f.name = "helper"
  /\ \E f \in Range(ret.prog) :
       /\ f.name = "main"
       /\ \E i \in DOMAIN f.instrs :
            /\ f.instrs[i] = Lbl("__trace_continuation")
            /\ i < Len(f.instrs)
            /\ f.instrs[i - 1] # Lbl(ABORT_LABEL)

\* C8: inject_trace fails when the stop index is negative or greater than the
\* length of main, when __trace_meta_main is absent or holds no const
\* __trace_stop_index, and when main or __trace_main is absent or occurs more than
\* once; the program passed in is then as it was before the call.
C8_FailureLeavesProgram ==
  [][phase' = "injected" /\
      LET Count(n) == Cardinality({i \in DOMAIN prog : prog[i].name = n})
          StopsOf(f) == {i \in DOMAIN f.instrs :
                           f.instrs[i].op = "const" /\ f.instrs[i].dest = "__trace_stop_index"}
          metas == {f \in Range(prog) : f.name = TRACE_META_FUNC_NAME}
          mains == {f \in Range(prog) : f.name = "main"}
      IN \/ Count("main") # 1
         \/ Count(TRACE_FUNC_NAME) # 1
         \/ metas = {}
         \/ \A f \in metas : StopsOf(f) = {}
         \/ \E f \in metas, m \in mains : \E i \in StopsOf(f) :
              f.instrs[i].value < 0 \/ f.instrs[i].value > Len(m.instrs)
      => ret'.ok = FALSE /\ prog' = prog
  ]_vars

\* C9 (inject_trace): the program the caller passed in is, after the call, equal to
\* its value before the call.
C9_CallerProgramUnchanged ==
  [][phase' = "injected" => prog' = prog]_vars

\* a failed injection on a program with one main, one __trace_main and one
\* __trace_meta_main whose stop index is past the end of main
C8_Witness ==
  /\ phase = "injected"
  /\ ~ret.ok
  /\ \A n \in {"main", TRACE_FUNC_NAME, TRACE_META_FUNC_NAME} :
       Cardinality({i \in DOMAIN prog : prog[i].name = n}) = 1
  /\ \E f \in Range(prog), m \in Range(prog) :
       /\ f.name = TRACE_META_FUNC_NAME
       /\ m.name = "main"
       /\ f.instrs[1].dest = "__trace_stop_index"
       /\ f.instrs[1].value > Len(m.instrs)

-----------------------------------------------------------------------------
(* Specification SpecSsa: to_ssa_function, then from_ssa_function, on a     *)
(* function of MaxSsaBlocks labelled blocks over the parameter p and the    *)
(* variable x.  A block holds at most one instruction and ends in any       *)
(* terminator; every block can be reached from the entry.  The sets of      *)
(* to_ssa are iterated in any order.                                        *)

MaxSsaBlocks == 3

SsaLabel(i) == "L" \o ToString(i)

SsaBodies ==
  {<<>>, <<Const("x", 1)>>, <<Op2("add", "x", "x", "p")>>, <<Const("p", 0)>>,
   <<PrintI("x")>>}

SsaEnds ==
  {<<>>, <<RetI>>}
  \cup {<<Jmp(SsaLabel(j))>> : j \in 1..MaxSsaBlocks}
  \cup {<<Br("p", SsaLabel(jk[1]), SsaLabel(jk[2]))>> :
          jk \in {x \in (1..MaxSsaBlocks) \X (1..MaxSsaBlocks) : x[1] < x[2]}}

SsaProgram(b, e) ==
  [args |-> <<"p">>,
   instrs |-> Flatten([i \in 1..MaxSsaBlocks |-> <<Lbl(SsaLabel(i))>> \o b[i] \o e[i]])]

AllReachable(f) ==
  With(build_cfg_for_function(f), LAMBDA cfg :
    reachable_block_names(cfg) = BlockNames(cfg.blocks))

SsaShapes ==
  {e \in [1..MaxSsaBlocks -> SsaEnds] :
     AllReachable(SsaProgram([i \in 1..MaxSsaBlocks |-> <<>>], e))}

\* a diamond: x is defined on both arms and printed at the join
SsaDiamond ==
  [args |-> <<"p">>,
   instrs |-> <<Lbl("L1"), Br("p", "L2", "L3"),
                Lbl("L2"), Const("x", 1), Jmp("L4"),
                Lbl("L3"), Const("x", 2),
                Lbl("L4"), PrintI("x")>>]

\* two loop headers L2 and L3 entered from L1; x is defined in L4 and in the
\* loop block L5, which is entered only when p is 0
SsaTwoHeaders ==
  [args |-> <<"p">>,
   instrs |-> <<Lbl("L1"), Br("p", "L2", "L3"),
                Lbl("L2"), Br("p", "L4", "L5"),
                Lbl("L3"), Br("p", "L4", "L5"),
                Lbl("L4"), Const("x", 1), PrintI("x"), RetI,
                Lbl("L5"), Op2("add", "x", "x", "p"), Br("p", "L2", "L3")>>]

SsaInputs ==
  {SsaProgram(b, e) : b \in [1..MaxSsaBlocks -> SsaBodies], e \in SsaShapes}
  \cup {SsaDiamond, SsaTwoHeaders}

\* iteration orders: the block names ascending or descending, the variable names
\* ascending or descending
SsaOrders ==
  {bo \o vo : bo \in {NameUniverse, Reverse(NameUniverse)},
              vo \in {VarUniverse, Reverse(VarUniverse)}}

InitSsa ==
  /\ phase = "input"
  /\ func \in SsaInputs
  /\ argv = <<0>>
  /\ out = Idle
  /\ prog = <<>>
  /\ ret = <<>>
  /\ order = <<>>

ToSsa ==
  /\ phase = "input"
  /\ phase' = "ssa"
  /\ \E ord \in SsaOrders :
       /\ order' = ord
       /\ out' = to_ssa_function_in(func, ord)
  /\ UNCHANGED <<func, argv, prog, ret>>

FromSsa ==
  /\ phase = "ssa"
  /\ phase' = "round"
  /\ ret' = out
  /\ out' = from_ssa_function(out)
  /\ UNCHANGED <<func, argv, prog, order>>

NextSsa == ToSsa \/ FromSsa

SpecSsa == InitSsa /\ [][NextSsa]_vars

\* C3: from_ssa_function(to_ssa_function(f)) prints what f prints, for every
\* argument value on which f runs to completion.
C3_SsaRoundTripPreservesOutput ==
  phase = "round" => \A a \in ArgVals : SamePrints(func, out, a)

\* C4: in the output of to_ssa_function every destination name is the destination
\* of exactly one instruction.
C4_EveryDestDefinedOnce ==
  phase = "ssa" =>
    \A i, j \in DOMAIN out.instrs :
      out.instrs[i].dest # "" /\ out.instrs[i].dest = out.instrs[j].dest => i = j

\* C10 (to_ssa_function): the instruction list does not depend on the order in
\* which the sets are iterated; it is the one the ascending order gives.
C10_SsaOrderIndependent ==
  phase = "ssa" => out.instrs = to_ssa_function(func).instrs

-----------------------------------------------------------------------------
(* Specification SpecLicm: licm_function on a function of MaxLicmBlocks     *)
(* labelled blocks over the parameter p and the variable x, with at most    *)
(* MaxLicmBody instructions in all besides the terminators.  Every block    *)
(* can be reached from the entry; the sets of the pass are iterated in any  *)
(* of LicmOrders.                                                           *)

MaxLicmBlocks == 3

MaxLicmBody == 3

LicmAlphabet == {Const("x", 1), Op1("id", "x", "p"), PrintI("x")}

LicmBodies ==
  {b \in [1..MaxLicmBlocks -> SeqsUpTo(LicmAlphabet, MaxLicmBody)] :
     Len(b[1]) + Len(b[2]) + Len(b[3]) <= MaxLicmBody}

LicmInputs == {SsaProgram(b, e) : b \in LicmBodies, e \in SsaShapes}

LicmOrders == {NameUniverse \o VarUniverse, Reverse(NameUniverse) \o VarUniverse}

InitLicm ==
  /\ phase = "input"
  /\ func \in LicmInputs
  /\ argv = <<0>>
  /\ out = Idle
  /\ prog = <<>>
  /\ ret = <<>>
  /\ order = <<>>

Licm ==
  /\ phase = "input"
  /\ phase' = "licm"
  /\ \E ord \in LicmOrders :
       /\ order' = ord
       /\ out' = licm_function_in(func, ord)
  /\ UNCHANGED <<func, argv, prog, ret>>

NextLicm == Licm

SpecLicm == InitLicm /\ [][NextLicm]_vars

\* C2: licm_function(f) prints what f prints, for every argument value on which f
\* runs to completion.
C2_LicmPreservesOutput ==
  phase = "licm" => \A a \in ArgVals : SamePrints(func, out, a)


\* C11: no instruction of the function licm_function returns carries the
\* scratch key _def_id.
C11_NoScratchKeys ==
  phase = "licm" => \A i \in DOMAIN out.instrs : out.instrs[i].defid = ""

-----------------------------------------------------------------------------
(* Specification SpecBuild: build_cfg_for_function on any instruction list  *)
(* over the alphabet, the ones whose br or jmp names no label included.     *)

MaxBuildLen == 3

BuildAlphabet ==
  {Lbl("L1"), Lbl("L2"), PrintI("p"), Jmp("L1"), Jmp("L2"), Br("p", "L1", "L2"), RetI}

BuildInputs == SeqsUpTo(BuildAlphabet, MaxBuildLen)

\* every label a br or jmp names is defined in the function
TargetsDefined(instrs) ==
  \A i \in DOMAIN instrs :
    instrs[i].op \in {"br", "jmp"} => Range(instrs[i].labels) \subseteq LabelsOf(instrs)

InitBuild ==
  /\ phase = "input"
  /\ func \in {[args |-> <<"p">>, instrs |-> s] : s \in BuildInputs}
  /\ argv = <<0>>
  /\ out = Idle
  /\ prog = <<>>
  /\ ret = <<>>
  /\ order = <<>>

\* build_cfg_for_function has no raise and no exit: every call returns a CFG
BuildCfg ==
  /\ phase = "input"
  /\ phase' = "built"
  /\ ret' = [ok |-> TRUE, cfg |-> build_cfg_for_function(func)]
  /\ UNCHANGED <<func, argv, out, prog, order>>

NextBuild == BuildCfg

SpecBuild == InitBuild /\ [][NextBuild]_vars

\* C12: a function in which some br or jmp names an undefined label is
\* reported as an error and yields no CFG.
C12_UndefinedLabelReported ==
  phase = "built" /\ ~TargetsDefined(func.instrs) => ~ret.ok

-----------------------------------------------------------------------------
(* Specification SpecSize: the LVN driver followed by the TDCE driver on a  *)
(* function with labels, jumps, constants and an addition.                  *)

MaxSizeLen == 5

SizeAlphabet ==
  {Lbl("L1"), Const("x", 0), Op2("add", "y", "x", "p"), PrintI("y"),
   Jmp("L1"), Br("p", "L1", "L1"), RetI}

SizeInputs == {s \in SeqsUpTo(SizeAlphabet, MaxSizeLen) : WellFormed(s)}

InitSize ==
  /\ phase = "input"
  /\ func \in {[args |-> <<"p">>, instrs |-> s] : s \in SizeInputs}
  /\ argv = <<0>>
  /\ out = Idle
  /\ prog = <<>>
  /\ ret = <<>>
  /\ order = <<>>

NextSize == LvnThenTdce

SpecSize == InitSize /\ [][NextSize]_vars

\* C14: the instruction list LVN followed by TDCE produces has at most as many
\* entries, labels included, as the instruction list of f.
C14_NeverMoreEntries ==
  phase = "lvn_tdce" => Len(out.instrs) <= Len(func.instrs)

\* a loop whose label stays, in which LVN turns the addition into a copy and
\* TDCE then removes the constant
C14_Witness ==
  /\ phase = "lvn_tdce"
  /\ \E i \in DOMAIN func.instrs : func.instrs[i].op = "add"
  /\ \E i \in DOMAIN out.instrs : is_label(out.instrs[i])
  /\ \E i \in DOMAIN out.instrs : out.instrs[i].op = "id"
  /\ Len(out.instrs) < Len(func.instrs)

-----------------------------------------------------------------------------
(* Specification SpecDfa: DFA.run, one iteration of its while loop at a    *)
(* time, for each of the three analyses on the CFG of a function of        *)
(* MaxDfaBlocks labelled blocks that end in any terminator.  The loop is a *)
(* sequential program: an iteration that can run does run.                 *)

MaxDfaBlocks == 3

MaxDfaBodies == 1

DfaLabel(i) == "L" \o ToString(i)

DfaBodies ==
  {<<>>, <<Op2("add", "x", "x", "p")>>, <<Op2("add", "y", "p", "p")>>, <<Const("p", 0)>>}

DfaEnds ==
  {<<>>, <<RetI>>}
  \cup {<<Jmp(DfaLabel(j))>> : j \in 1..MaxDfaBlocks}
  \cup {<<Br("p", DfaLabel(jk[1]), DfaLabel(jk[2]))>> :
          jk \in {x \in (1..MaxDfaBlocks) \X (1..MaxDfaBlocks) : x[1] < x[2]}}

\* at most MaxDfaBodies blocks hold an instruction in front of the terminator
DfaInputs ==
  {[args |-> <<"p">>,
    instrs |-> Flatten([i \in 1..MaxDfaBlocks |-> <<Lbl(DfaLabel(i))>> \o b[i] \o e[i]])] :
     b \in {c \in [1..MaxDfaBlocks -> DfaBodies] :
              Cardinality({i \in 1..MaxDfaBlocks : c[i] # <<>>}) <= MaxDfaBodies},
     e \in [1..MaxDfaBlocks -> DfaEnds]}

InitDfa ==
  /\ phase = "input"
  /\ func = Idle
  /\ argv = <<0>>
  /\ out = Idle
  /\ prog = <<>>
  /\ ret = <<>>
  /\ order = <<>>

\* run_analysis on the CFG of a function, up to the while loop of DFA.run
DfaInit ==
  /\ phase = "input"
  /\ phase' = "run"
  /\ \E kind \in DfaKinds, f \in DfaInputs :
       \E dfa \in {DfaNew(build_cfg_for_function(f))} :
         /\ func' = f
         /\ prog' = dfa
         /\ ret' = DfaStart(kind, dfa)
  /\ UNCHANGED <<argv, out, order>>

\* lines 123-157: one iteration of the while loop
DfaStep ==
  /\ phase = "run"
  /\ ret.work # <<>>
  /\ \E met \in {DfaMeet(prog, ret, Head(ret.work))} :
       \E new \in {DfaBlock(prog, ret, Head(ret.work), met)} :
         ret' = DfaUpdate(prog, ret, Head(ret.work), new)
  /\ UNCHANGED <<phase, func, argv, out, prog, order>>

\* lines 159-162: the worklist is empty
DfaReturn ==
  /\ phase = "run"
  /\ ret.work = <<>>
  /\ phase' = "done"
  /\ UNCHANGED <<func, argv, out, prog, ret, order>>

NextDfa == DfaInit \/ DfaStep \/ DfaReturn

SpecDfa == InitDfa /\ [][NextDfa]_vars /\ WF_vars(DfaStep \/ DfaReturn)

\* C15: once DFA.run has entered its loop it empties the worklist and returns,
\* for each analysis on every CFG.
C15_DfaTerminates == (phase = "run") ~> (phase = "done")

\* the solver has returned on a CFG with a cycle through all its blocks, with a
\* fact that is no longer the initial one
C15_Witness ==
  /\ phase = "done"
  /\ \A b \in DOMAIN prog.blocks : prog.succ[b] = <<(b % Len(prog.blocks)) + 1>>
  /\ \E b \in DOMAIN prog.blocks : ret.work_in[b] # DfaTop(ret.kind, prog)

\* whether expression e is available after the first k instructions of a block,
\* given whether it was at the start: computing e makes it available, an
\* assignment to one of its arguments (also by the computing instruction) ends that
RECURSIVE AvailAfter(_, _, _, _)
AvailAfter(instrs, e, avail, k) ==
  IF k = 0 THEN avail
  ELSE IF instr_def(instrs[k]) # NoName /\ instrs[k].dest \in Range(e[2]) THEN FALSE
  ELSE IF is_pure_expr(instrs[k]) /\ expr_key(instrs[k]) = e THEN TRUE
  ELSE AvailAfter(instrs, e, avail, k - 1)

\* the pairs <<block, availability of e at its start>> some path from the entry
\* (where nothing is available) leads to
RECURSIVE PathStates(_, _, _, _)
PathStates(cfg, e, frontier, seen) ==
  IF frontier = {} THEN seen
  ELSE PathStates(cfg, e,
         (UNION {{<<q, AvailAfter(cfg.blocks[x[1]].instrs, e, x[2], Len(cfg.blocks[x[1]].instrs))>> :
                    q \in Range(cfg.succ[x[1]])} : x \in frontier}) \ (seen \cup frontier),
         seen \cup frontier)

AvailableOnEveryPath(cfg, e, b) == <<b, FALSE>> \notin PathStates(cfg, e, {<<1, FALSE>>}, {})

\* C16: an expression in the in-fact of a reachable block is available at the
\* start of the block on every path from the function entry, the empty path to
\* the entry block included.
C16_AvailableOnlyIfOnEveryPath ==
  phase = "done" /\ ret.kind = "ae" =>
    \A b \in DOMAIN prog.blocks :
      prog.blocks[b].name \in reachable_block_names(prog) =>
        \A e \in ret.work_in[b] : AvailableOnEveryPath(prog, e, b)

-----------------------------------------------------------------------------
(* Specification SpecBlock: lvn_block on one basic block, one iteration of *)
(* its loop at a time.  ret holds the tables and the instructions emitted  *)
(* so far.                                                                 *)

MaxBlockLen == 3

BlockAlphabet ==
  {Const("x", 7), Const("x", 0 - 7), Const("y", 0), Const("y", 1), Const("y", 2),
   Const("y", 0 - 2), CallI("x", "p"), Mk("id", "x", "int", <<"p">>, <<>>, 0),
   Op2("div", "z", "x", "y"), Op2("sub", "z", "p", "y"),
   Op2("add", "z", "p", "y"), Op2("add", "z", "y", "p"),
   Op2("mul", "z", "p", "y"), Op2("mul", "x", "y", "p"),
   Op2("and", "z", "y", "p"), Op2("or", "z", "p", "y")}

BlockInputs == SeqsUpTo(BlockAlphabet, MaxBlockLen)

InitBlock ==
  /\ phase = "block"
  /\ func \in {[args |-> <<"p">>, instrs |-> s] : s \in BlockInputs}
  /\ argv = <<0>>
  /\ out = Idle
  /\ prog = <<>>
  /\ ret = LvnInit
  /\ order = <<>>

\* the instruction the loop of lvn_block handles next
NextInstr == func.instrs[Len(ret.new_instrs) + 1]

\* lines 152-259: one iteration of the loop
LvnBlockStep ==
  /\ phase = "block"
  /\ Len(ret.new_instrs) < Len(func.instrs)
  /\ ret' = LvnInstr(ret, NextInstr)
  /\ UNCHANGED <<phase, func, argv, out, prog, order>>

\* line 261
LvnBlockReturn ==
  /\ phase = "block"
  /\ Len(ret.new_instrs) = Len(func.instrs)
  /\ phase' = "done"
  /\ out' = [func EXCEPT !.instrs = ret.new_instrs]
  /\ UNCHANGED <<func, argv, prog, ret, order>>

NextBlock == LvnBlockStep \/ LvnBlockReturn

SpecBlock == InitBlock /\ [][NextBlock]_vars

\* the tables once the arguments of the next instruction are numbered (lines 186-193)
ArgsNumbered == EnsureAll(ret, NextInstr.args)

\* the constant known for argument i of the next instruction: <<c>>, or <<>> for None
ArgConst(i) ==
  With(ArgsNumbered, LAMBDA st :
    With(st.var2num[NextInstr.args[i]], LAMBDA n :
      IF n \in DOMAIN st.num2const THEN <<st.num2const[n]>> ELSE <<>>))

\* the identity constant of an op at argument position i, <<>> when there is none
IdentityConst(op, i) ==
  CASE op = "add" -> <<0>>
    [] op = "sub" -> IF i = 2 THEN <<0>> ELSE <<>>
    [] op = "mul" -> <<1>>
    [] op = "and" -> <<1>>
    [] op = "or" -> <<0>>
    [] OTHER -> <<>>

\* the instruction the iteration emits
Emitted == ret'.new_instrs[Len(ret'.new_instrs)]

\* C17: when one operand of add, sub, mul, and, or is known to be the identity
\* constant and the other is not a known constant, and the instruction becomes
\* d = id r, then r has the value number of the other operand.
C17_IdentityCopiesOperand ==
  [][LvnBlockStep =>
       \A i \in 1..2 :
         (/\ NextInstr.op \in {"add", "sub", "mul", "and", "or"}
          /\ NextInstr.dest # NoName
          /\ ArgConst(i) # <<>>
          /\ ArgConst(i) = IdentityConst(NextInstr.op, i)
          /\ ArgConst(3 - i) = <<>>
          /\ Emitted.op = "id")
         => ArgsNumbered.var2num[Emitted.args[1]]
              = ArgsNumbered.var2num[NextInstr.args[3 - i]]]_vars

\* C18: after an instruction that is not a const, an id or a core op and has a
\* destination d, d holds no value number handed out before the instruction.
C18_OtherOpFreshNumber ==
  [][(/\ LvnBlockStep
        /\ NextInstr.op \notin {"const", "id", "label"} \cup BINARY_OPS \cup UNARY_OPS
        /\ NextInstr.dest # NoName)
       => \/ NextInstr.dest \notin DOMAIN ret'.var2num
          \/ ret'.var2num[NextInstr.dest] >= ret.next_num]_vars

\* the value numbers lines 207-229 look the canonical arguments up for
CanonNums ==
  With(ArgsNumbered, LAMBDA st :
    With([i \in DOMAIN NextInstr.args |-> st.var2num[NextInstr.args[i]]], LAMBDA nums :
      IF NextInstr.op \in BINARY_OPS THEN normalize_commutative(NextInstr.op, nums)
      ELSE nums))

\* C19: when a core op becomes d = id r, r holds the value number d gets; when
\* its arguments are replaced by canonical variables, each holds the value
\* number it stands for.
C19_CanonicalStillHoldsNumber ==
  [][LvnBlockStep /\ NextInstr.op \in BINARY_OPS \cup UNARY_OPS =>
       /\ (Emitted.op = "id" /\ NextInstr.dest # NoName) =>
            /\ Emitted.args[1] \in DOMAIN ArgsNumbered.var2num
            /\ ArgsNumbered.var2num[Emitted.args[1]] = ret'.var2num[NextInstr.dest]
       /\ (Emitted.op = NextInstr.op) =>
            \A i \in DOMAIN Emitted.args :
              /\ Emitted.args[i] \in DOMAIN ArgsNumbered.var2num
              /\ ArgsNumbered.var2num[Emitted.args[i]] = CanonNums[i]]_vars

\* C20: a div of two known constants, the second not zero, folds to the
\* quotient truncated toward zero.
C20_DivFoldTruncates ==
  [][(/\ LvnBlockStep
        /\ NextInstr.op = "div"
        /\ NextInstr.dest # NoName
        /\ ArgConst(1) # <<>>
        /\ ArgConst(2) # <<>>
        /\ ArgConst(2) # <<0>>
        /\ Emitted.op = "const")
       => Emitted.value = TruncDiv(ArgConst(1)[1], ArgConst(2)[1])]_vars

-----------------------------------------------------------------------------
(* Specification SpecKill: the scan of remove_locally_killed_instructions  *)
(* over one block, one instruction at a time from the right.  ret holds    *)
(* the index of the next instruction and the sets of the scan.             *)

MaxKillLen == 4

KillAlphabet ==
  {Const("x", 1), Const("y", 2), Mk("id", "x", "int", <<"x">>, <<>>, 0),
   Mk("id", "x", "int", <<"y">>, <<>>, 0), Op2("add", "x", "x", "y"),
   Op2("add", "y", "p", "p"), CallI("x", "p"), PrintI("x")}

KillInputs == SeqsUpTo(KillAlphabet, MaxKillLen)

InitKill ==
  /\ phase = "scan"
  /\ \E s \in KillInputs :
       /\ func = [args |-> <<"p">>, instrs |-> s]
       /\ ret = [i |-> Len(s), st |-> [redefined |-> {}, used |-> {}, kept |-> <<>>]]
  /\ argv = <<0>>
  /\ out = Idle
  /\ prog = <<>>
  /\ order = <<>>

\* lines 56-96: one iteration of the loop over reversed(block["instrs"])
KillStep ==
  /\ phase = "scan"
  /\ ret.i > 0
  /\ ret' = [i |-> ret.i - 1, st |-> LocalScanStep(ret.st, func.instrs[ret.i])]
  /\ UNCHANGED <<phase, func, argv, out, prog, order>>

\* line 98
KillReturn ==
  /\ phase = "scan"
  /\ ret.i = 0
  /\ phase' = "done"
  /\ out' = [func EXCEPT !.instrs = ret.st.kept]
  /\ UNCHANGED <<func, argv, prog, ret, order>>

NextKill == KillStep \/ KillReturn

SpecKill == InitKill /\ [][NextKill]_vars

\* instruction i of the block is a copy of a variable to itself
SelfCopy(instrs, i) ==
  /\ instrs[i].op = "id"
  /\ instrs[i].dest # NoName
  /\ instrs[i].args = <<instrs[i].dest>>

\* the destination of instruction i is assigned again further right and no
\* instruction in between reads it
KilledLater(instrs, i) ==
  \E j \in (i + 1)..Len(instrs) :
    /\ instrs[j].dest = instrs[i].dest
    /\ \A k \in (i + 1)..(j - 1) : instrs[i].dest \notin Range(instr_uses(instrs[k]))

\* C21: an instruction the scan drops has a destination and is a self-copy, or
\* is not a call and is killed later in the block before any read.
C21_OnlyKilledRemoved ==
  [][KillStep /\ ret'.st.kept = ret.st.kept =>
       /\ func.instrs[ret.i].dest # NoName
       /\ \/ SelfCopy(func.instrs, ret.i)
          \/ /\ func.instrs[ret.i].op # "call"
             /\ KilledLater(func.instrs, ret.i)]_vars

\* a finished scan that dropped an instruction which is not a self-copy, from a
\* block that also reads the variable further right
C21_Witness ==
  /\ phase = "done"
  /\ Len(out.instrs) < Len(func.instrs)
  /\ \A i \in DOMAIN func.instrs : ~SelfCopy(func.instrs, i)
  /\ \E i \in DOMAIN func.instrs : func.instrs[i].op = "print"
  /\ \E i \in DOMAIN out.instrs : out.instrs[i].op = "print"

-----------------------------------------------------------------------------
(* Specification SpecHoist: licm_function, one back edge of the loop of     *)
(* line 258 at a time.  prog holds the CFG, the dominator sets, the back    *)
(* edges and the index of the next one; ret holds what the last iteration   *)
(* computed.  A function is an optional x = const 0 in front of             *)
(* MaxSsaBlocks labelled blocks.                                            *)

MaxHoistBodies == 2

HoistBodies ==
  {<<>>, <<Const("x", 1)>>, <<Op1("id", "y", "x")>>,
   <<Op1("id", "y", "x"), Const("x", 1)>>}

HoistInputs ==
  {[args |-> <<"p">>, instrs |-> pre \o SsaProgram(b, e).instrs] :
     pre \in {<<>>, <<Const("x", 0)>>},
     b \in {c \in [1..MaxSsaBlocks -> HoistBodies] :
              Cardinality({i \in 1..MaxSsaBlocks : c[i] # <<>>}) <= MaxHoistBodies},
     e \in SsaShapes}

InitHoist ==
  /\ phase = "input"
  /\ func \in HoistInputs
  /\ argv = <<0>>
  /\ out = Idle
  /\ prog = <<>>
  /\ ret = <<>>
  /\ order = SortedOrder

\* lines 249-254
LicmStart ==
  /\ phase = "input"
  /\ phase' = "loops"
  /\ \E cfg \in {build_cfg_for_function(func)} :
       \E dom_sets \in {compute_dom_sets(cfg)} :
         prog' = [cfg |-> cfg, dom_sets |-> dom_sets,
                  backs |-> find_back_edges(cfg, dom_sets), k |-> 1]
  /\ UNCHANGED <<func, argv, out, ret, order>>

\* lines 258-342: one iteration of the loop over the back edges
LicmIteration ==
  /\ phase = "loops"
  /\ prog.k <= Len(prog.backs)
  /\ \E r \in {LicmLoop(prog.cfg, prog.dom_sets, prog.backs[prog.k][1],
                        prog.backs[prog.k][2], order)} :
       /\ ret' = r
       /\ prog' = [prog EXCEPT !.cfg = LicmHoist(r), !.k = prog.k + 1]
  /\ UNCHANGED <<phase, func, argv, out, order>>

\* line 345
LicmReturn ==
  /\ phase = "loops"
  /\ prog.k > Len(prog.backs)
  /\ phase' = "done"
  /\ out' = linearize_cfg(prog.cfg)
  /\ UNCHANGED <<func, argv, prog, ret, order>>

NextHoist == LicmStart \/ LicmIteration \/ LicmReturn

SpecHoist == InitHoist /\ [][NextHoist]_vars

\* the last iteration moved instructions into a preheader
JustHoisted == phase = "loops" /\ ret # <<>> /\ ret.hoists

\* the definitions <<var, block, index>> of x that reach the location loc of the
\* loop r
ReachingAt(r, loc, x) ==
  With(orig_index(r.c1.blocks, loc[1]), LAMBDA b :
    {d \in FactAfter(r.c1.blocks[b].instrs, loc[1], r.facts[b], loc[2] - 1) : d[1] = x})

InstrAt(r, loc) == block_by_name(r.c1.blocks, loc[1]).instrs[loc[2]]

\* C22: for an instruction moved into the preheader and an argument x of it, the
\* definitions of x reaching it are all outside the loop, or there is exactly
\* one, inside the loop and moved as well.
C22_OperandsDefinedOutsideOrHoisted ==
  JustHoisted =>
    \A loc \in ret.hoistable :
      \A k \in DOMAIN InstrAt(ret, loc).args :
        With(ReachingAt(ret, loc, InstrAt(ret, loc).args[k]), LAMBDA defs :
          \/ \A d \in defs : d[2] \notin ret.loop_nodes
          \/ /\ Cardinality(defs) = 1
             /\ \A d \in defs : d[2] \in ret.loop_nodes /\ <<d[2], d[3] + 1>> \in ret.hoistable)

\* the blocks of cfg reachable from its entry without entering block avoid
RECURSIVE ReachAvoiding(_, _, _, _)
ReachAvoiding(cfg, avoid, frontier, seen) ==
  IF frontier = {} THEN seen
  ELSE ReachAvoiding(cfg, avoid,
         (UNION {Range(Get(cfg.edges, n, <<>>)) : n \in frontier})
           \ (seen \cup frontier \cup {avoid}),
         seen \cup frontier)

\* C23: after a hoist the preheader has the header as its only successor and
\* every path from the entry of the function to the header goes through the
\* preheader.
C23_PreheaderGuardsHeader ==
  JustHoisted =>
    /\ Get(prog.cfg.edges, ret.pre, <<>>) = <<ret.head>>
    /\ ret.head \notin ReachAvoiding(prog.cfg, ret.pre, {prog.cfg.entry} \ {ret.pre}, {})

\* the position in the preheader of the instruction hoisted from loc
PosInPreheader(r, loc) ==
  CHOOSE j \in DOMAIN SortedLocs(r.hoistable) : SortedLocs(r.hoistable)[j] = loc

\* the hoisted instruction at def runs before the one at use in every iteration
\* of the loop: earlier in the same block, or in a block that dominates
RunsBefore(def, use) ==
  IF def[1] = use[1] THEN def[2] < use[2]
  ELSE def[1] \in Get(prog.dom_sets, use[1], {})

\* C24: a hoisted instruction that reads a variable defined by another hoisted
\* instruction, which runs before it in the loop, stands after it in the
\* preheader.
C24_HoistedDefBeforeUse ==
  JustHoisted =>
    \A use \in ret.hoistable, def \in ret.hoistable :
      (/\ use # def
       /\ InstrAt(ret, def).dest \in Range(InstrAt(ret, use).args)
       /\ RunsBefore(def, use))
      => PosInPreheader(ret, def) < PosInPreheader(ret, use)

-----------------------------------------------------------------------------
(* The set/get form to_ssa_function returns, on SpecSsa                    *)

\* instruction i of instrs is 'set w, v' and only set, undef and terminator
\* instructions follow it
SetAtEnd(instrs, i, w) ==
  /\ instrs[i].op = "set"
  /\ instrs[i].args[1] = w
  /\ \A k \in (i + 1)..Len(instrs) : instrs[k].op \in {"set", "undef"} \cup TERMINATORS

-----------------------------------------------------------------------------
(* Specification SpecFrom: from_ssa_function on a function in set/get form *)
(* of at most MaxFromLen entries, in which no label is defined twice and    *)
(* every set names a variable that has a get.                              *)

MaxFromLen == 4

FromAlphabet ==
  {Lbl("L1"), Jmp("L1"), PrintI("x.1"), Const("y", 1),
   Mk("get", "x.1", "int", <<>>, <<>>, 0), Mk("get", "y.1", "bool", <<>>, <<>>, 0),
   Mk("set", "", "", <<"x.1", "p">>, <<>>, 0), Mk("set", "", "", <<"y.1", "y">>, <<>>, 0)}

GetOf(instrs, w) == {i \in DOMAIN instrs : instrs[i].op = "get" /\ instrs[i].dest = w}

FromInputs ==
  {s \in SeqsUpTo(FromAlphabet, MaxFromLen) :
     /\ WellFormed(s)
     /\ \A i \in DOMAIN s : s[i].op = "set" => GetOf(s, s[i].args[1]) # {}}

InitFrom ==
  /\ phase = "input"
  /\ func \in {[args |-> <<"p">>, instrs |-> s] : s \in FromInputs}
  /\ argv = <<0>>
  /\ out = Idle
  /\ prog = <<>>
  /\ ret = <<>>
  /\ order = <<>>

\* from_ssa_function on one function
FromSsaOnly ==
  /\ phase = "input"
  /\ phase' = "from"
  /\ out' = from_ssa_function(func)
  /\ UNCHANGED <<func, argv, prog, ret, order>>

NextFrom == FromSsaOnly

SpecFrom == InitFrom /\ [][NextFrom]_vars

\* what the claim says an instruction of f becomes: a set the copy typed as the
\* get of its variable, a get nothing, any other instruction itself
Destructed(instrs, ins) ==
  IF ins.op = "set"
  THEN <<Mk("id", ins.args[1], instrs[Max(GetOf(instrs, ins.args[1]))].type,
            <<ins.args[2]>>, <<>>, 0)>>
  ELSE IF ins.op = "get" THEN <<>>
  ELSE <<ins>>

\* the instructions of a list that are no label and no jmp
Plain(instrs) == SelectSeq(instrs, LAMBDA x : x.op \notin {"label", "jmp"})

\* C26: the function from_ssa_function returns has no get and no set; in the
\* place of every set stands the copy typed as the get of its variable, and the
\* other instructions are as they were, in their order.
C26_SetsBecomeTypedCopies ==
  phase = "from" =>
    /\ \A i \in DOMAIN out.instrs : out.instrs[i].op \notin {"get", "set"}
    /\ AllReachable(func) =>
         Plain(out.instrs)
           = Flatten([i \in DOMAIN Plain(func.instrs) |->
                        Destructed(func.instrs, Plain(func.instrs)[i])])

-----------------------------------------------------------------------------
(* Immediate dominators and dominance frontiers, on SpecDom                *)

\* the blocks y such that x dominates a predecessor of y and does not strictly
\* dominate y
FrontierOf(cfg, x) ==
  {y \in reachable_block_names(cfg) :
     /\ \E q \in Range(Get(cfg.preds, y, <<>>)) \cap reachable_block_names(cfg) :
          DominatesOnAllPaths(cfg, x, q)
     /\ ~(x # y /\ DominatesOnAllPaths(cfg, x, y))}

\* C27: for every reachable block x, DF[x] is the set of blocks y such that x
\* dominates a predecessor of y and x does not strictly dominate y.
C27_FrontierIsDefinition ==
  phase = "df" =>
    With(build_cfg_for_function(func), LAMBDA cfg :
      \A x \in reachable_block_names(cfg) : ret.df[x] = FrontierOf(cfg, x))

\* C28: compute_imm_dom finds exactly one candidate for every reachable block
\* other than the entry.
C28_OneImmediateDominator ==
  phase = "df" =>
    With(build_cfg_for_function(func), LAMBDA cfg :
      \A b \in reachable_block_names(cfg) \ {entry_name(cfg)} :
        /\ Cardinality(ret.candidates[b]) = 1
        /\ ret.imm_dom[b] \in ret.candidates[b])

\* a CFG where a block has two strict dominators and another block, with two
\* predecessors, has the entry for its immediate dominator
C28_Witness ==
  /\ phase = "df"
  /\ \E b \in DOMAIN ret.dom : Cardinality(ret.dom[b]) = 3
  /\ With(build_cfg_for_function(func), LAMBDA cfg :
       \E b \in DOMAIN ret.dom :
         /\ b # entry_name(cfg)
         /\ Cardinality(Range(cfg.preds[b])) >= 2
         /\ ret.imm_dom[b] = entry_name(cfg))

-----------------------------------------------------------------------------
(* Specification SpecNames: build_cfg_for_function on the well-formed       *)
(* functions over an alphabet whose labels include B0 and B1, the names the *)
(* code gives to blocks without a label.                                    *)

MaxNameLen == 3

NameAlphabet ==
  {Lbl("B0"), Lbl("B1"), Lbl("L1"), PrintI("p"), Jmp("B0"), Jmp("L1"), RetI}

NameInputs == {s \in SeqsUpTo(NameAlphabet, MaxNameLen) : WellFormed(s)}

InitNames ==
  /\ phase = "input"
  /\ func \in {[args |-> <<"p">>, instrs |-> s] : s \in NameInputs}
  /\ argv = <<0>>
  /\ out = Idle
  /\ prog = <<>>
  /\ ret = <<>>
  /\ order = <<>>

SpecNames == InitNames /\ [][NextBuild]_vars

\* C29: the names of the blocks build_cfg_for_function returns are pairwise
\* distinct.
C29_BlockNamesDistinct ==
  phase = "built" =>
    \A i, j \in DOMAIN ret.cfg.blocks :
      i # j => ret.cfg.blocks[i].name # ret.cfg.blocks[j].name

-----------------------------------------------------------------------------
(* The facts DFA.run returns, on SpecDfa                                    *)

\* the facts recorded for the instructions of block b are chained by the
\* transfer function between the facts first and last
InstFactsChain(d, b, first, last) ==
  With(prog.blocks[b].instrs, LAMBDA instrs :
    /\ b \in DOMAIN d.inst_in_lattice /\ b \in DOMAIN d.inst_out_lattice
    /\ Len(d.inst_in_lattice[b]) = Len(instrs)
    /\ Len(d.inst_out_lattice[b]) = Len(instrs)
    /\ IF instrs = <<>> THEN first = last
       ELSE IF DfaForward(d.kind)
       THEN /\ d.inst_in_lattice[b][1] = first
            /\ d.inst_out_lattice[b][Len(instrs)] = last
            /\ \A k \in DOMAIN instrs :
                 /\ d.inst_out_lattice[b][k] =
                      DfaTransfer(d.kind, d.inst_in_lattice[b][k], instrs[k], prog.blocks[b].name, k)
                 /\ k > 1 => d.inst_in_lattice[b][k] = d.inst_out_lattice[b][k - 1]
       ELSE /\ d.inst_out_lattice[b][Len(instrs)] = first
            /\ d.inst_in_lattice[b][1] = last
            /\ \A k \in DOMAIN instrs :
                 /\ d.inst_in_lattice[b][k] =
                      DfaTransfer(d.kind, d.inst_out_lattice[b][k], instrs[k], prog.blocks[b].name, k)
                 /\ k > 1 => d.inst_out_lattice[b][k - 1] = d.inst_in_lattice[b][k])

\* C30: when DFA.run returns, the facts are a fixpoint.  Forward, the in-fact of
\* a block with predecessors is the merge of their out-facts and the out-fact of
\* every block is its in-fact carried through its instructions; backward, the
\* out-fact of a block with successors is the merge of their in-facts and the
\* in-fact is the out-fact carried backwards.  The facts recorded for each
\* instruction are the ones on that way.
C30_FactsAreFixpoint ==
  phase = "done" =>
    \A b \in DOMAIN prog.blocks :
      IF DfaForward(ret.kind)
      THEN /\ prog.pred[b] # <<>> =>
                ret.work_in[b] =
                  meet_many(ret.kind, prog, {ret.work_out[q] : q \in Range(prog.pred[b])})
           /\ InstFactsChain(ret, b, ret.work_in[b], ret.work_out[b])
      ELSE /\ prog.succ[b] # <<>> =>
                ret.work_out[b] =
                  meet_many(ret.kind, prog, {ret.work_in[q] : q \in Range(prog.succ[b])})
           /\ InstFactsChain(ret, b, ret.work_out[b], ret.work_in[b])

\* the solver has returned on a CFG where a block of two instructions is its own
\* predecessor and successor, and the fact merged from its neighbours is no
\* longer the initial one
C30_Witness ==
  /\ phase = "done"
  /\ \E b \in DOMAIN prog.blocks :
       /\ Len(prog.blocks[b].instrs) = 2
       /\ b \in Range(prog.succ[b])
       /\ (IF DfaForward(ret.kind) THEN ret.work_in[b] ELSE ret.work_out[b])
            # DfaTop(ret.kind, prog)

====
